---- MODULE Spec2Model ----
(***************************************************************************)
(* Engine.cpp: the double-buffered handoff between the foreground thread   *)
(* (Wait / Step / Go / Draw / Click / RClick / SelectGroup / ~Engine) and  *)
(* the calculation thread (ThreadEntryPoint / CalculateStep), and the      *)
(* per-step entity pipeline of CalculateStep.                              *)
(*                                                                         *)
(* Spec      : the two threads, the foreground calling in the order        *)
(*             Wait -> Step -> Go, with the click hand-off.                *)
(* EventSpec : the same order of calls, with the event hand-off.           *)
(* AnySpec   : the two threads, the foreground calling in any order.       *)
(* FairSpec  : AnySpec with the scheduling the threads are guaranteed.     *)
(* StepSpec  : the entity store inside consecutive CalculateStep runs.     *)
(* GrudgeSpec: the assistance requests DoGrudge raises and suppresses.      *)
(* FleetSpec : the fleets SpawnFleets and EnterSystem place.                 *)
(* BlastSpec : the damage branch of DoCollisions, and the places that use   *)
(*             a government or planet reference that may be absent.         *)
(* StageSpec : the order of the stages of one calculation.                  *)
(* MoveSpec  : the MoveShip loop and Prune(ships) over consecutive steps.   *)
(* HitSpec   : what one projectile hits in DoCollisions.                    *)
(* ReqSpec   : the gates of DoGrudge a hit must pass to raise a request.    *)
(* PersonSpec: the draws of SpawnPersons.                                   *)
(***************************************************************************)
EXTENDS Integers, Sequences, FiniteSets, TLC

\* ------------------------------------------------------------------ bounds
\* Go() calls the foreground may make (caps the frame counter `step`).
MaxStep == 3
\* Distinct screen points a click may carry (multiples of the zoom).
MaxPoint == 1
\* Events one calculation may append to eventQueue.
MaxEvents == 2
\* Entities (ships, projectiles, flotsam, visuals) ever created in a run.
MaxEntities == 3
\* Ships taking part in the assistance requests.
MaxGrudgeShips == 2
\* Largest strength ai.AllyStrength / ai.EnemyStrength report.
MaxStrength == 5
\* Ships near one detonation.
MaxBlastShips == 2
\* Entities of one kind a calculation handles in the stage order model.
MaxStageItems == 2
\* Ships in the list the MoveShip loop goes through.
MaxMoveShips == 3
\* Ships in the list DoGrudge adds up the attackers' strength from.
MaxAttackers == 2
\* Largest (Shields() + Hull()) * Cost() of a ship in DoGrudge.
MaxHealth == 2
\* Person definitions in GameData::Persons().
MaxPersons == 2
\* Largest Frequency(system) of a person.
MaxFrequency == 2
\* Ships in the list SendHails picks its source from.
MaxHailShips == 2
\* closestHit is a fraction of the projectile's path in this step, in steps
\* of 1 / MaxFraction: 0 is the projectile's position, MaxFraction is 1.
\* (nothing hit).
MaxFraction == 2
\* Steps a request silences further requests (grudgeTime = 120 in the code).
GrudgeCooldown == 2
\* SpawnPersons: sum = Random::Int(sum + 1000);
Baseline == 1000
\* View zoom, Preferences::ViewZoom(); Step() leaves it alone once reached.
ViewZoom == 2

\* ------------------------------------------------------------------- state
VARIABLES
    \* --- shared between the threads, guarded by swapMutex
    calcTickTock,      \* slot the worker writes
    drawTickTock,      \* slot Draw() reads
    terminate,         \* termination flag
    step,              \* frame counter
    \* --- the two slots draw[2] / radar[2]
    draw,              \* [BOOLEAN -> [state, by]]
    \* --- thread positions
    fpc,               \* foreground position
    wpc,               \* worker position
    \* --- event hand-off
    eventQueue,        \* filled by the worker
    events,            \* exposed by Events()
    doEnter,           \* set by EnterSystem, consumed by Step
    \* --- click capture
    doClickNextStep, doClick, isRightClick, hasShift, clickPoint, groupSelect,
    \* --- history variables (not program state)
    last,              \* last foreground call completed: none/Wait/Step/Go
    inOrder,           \* every call so far followed Wait -> Step -> Go
    calcNo,            \* calculations started
    emitted,           \* events appended by the running calculation
    calcDone,          \* calculations completed (published)
    sinceWait,         \* [calcs, gos] since the last Wait() returned
    atWait,            \* [n, calcs, gos] at the last Wait() return
    lastFilled,        \* slot most recently completely filled
    tornDraw,          \* Draw() has read a slot that was being written
    pending,           \* worker events not yet exposed
    delivered,         \* worker events exposed by some Step()
    repeated,          \* worker events exposed by two different Step() calls
    lost,              \* worker events dropped without being exposed
    captured,          \* click inputs as they stood when Step() set doClick
    handled,           \* click inputs HandleMouseClicks acted on
    \* --- the entity store (worker-exclusive)
    ships, projectiles, flotsam, visuals,            \* live collections
    newShips, newProjectiles, newFlotsam, newVisuals, \* staging buffers
    removed,           \* entities whose ShouldBeRemoved() is true
    inSystem,          \* ships with GetSystem() == player.GetSystem()
    fullZoom,          \* ships FillCollisionSets found at Zoom() == 1.
    cloaked,           \* ships FillCollisionSets found at Cloaking() == 1.
    hasAntiMissile,    \* ships with an anti-missile system ready
    shipCollisions, cloakedCollisions,               \* collision sets
    drawList,          \* entities added to draw[calcTickTock] this step
    spc,               \* position inside CalculateStep
    idx,               \* position of the running loop
    nextId,            \* next entity to be created
    flagship,          \* CalculateStep's local: player.Flagship(), 0 if none
    \* --- history of the entity store (not program state)
    markedPrev,        \* entities marked for removal in an earlier step
    createdNow,        \* entities created in the running step
    movedDead,         \* marked in an earlier step, then passed to Move
    collidedDead,      \* marked in an earlier step, then collided against
    drawnDead,         \* marked in an earlier step, then drawn
    movedNew,          \* passed to Move in the step that created them
    collidedNew,       \* subjected to collision in the step that created them
    atStart,           \* the live collections when the running step began
    movedNow,          \* the Move calls of the running step, in order
    enteredNow,        \* EnterSystem() ran in the running step
    shotDown,          \* projectiles an anti-missile system killed, kept
                       \* until the next step's splice
    \* --- the assistance requests (DoGrudge)
    grudge,            \* per attacking government: the ship that asked for help
    grudgeTime,        \* steps until a ship may ask for help again
    shipGov,           \* government of each ship
    shipAlive,         \* ships whose object still exists
    shipPresent,       \* ships with GetSystem() == player.GetSystem()
    shipDisabled,      \* ships with IsDisabled()
    lastAttack,
                   \* history: the DoGrudge call just made and what it found
    quietSteps,        \* history: calculations that went past the early
                       \* return since the last request, up to GrudgeCooldown
    \* --- fleet placement (SpawnFleets, EnterSystem)
    allyStrength,      \* ai.AllyStrength(gov) for the fleet's government
    enemyStrength,     \* ai.EnemyStrength(gov) for the fleet's government
    lastFleet,
                    \* history: the fleet just considered and what became of it
    \* --- one detonation resolved by DoCollisions, and absent references
    blastIn,           \* the detonating projectile and the ships around it
    blastOut,          \* ships TakeDamage was called on, events queued
    nullUse,           \* "none", or the place that used an absent reference
    \* --- the stages of one calculation, in the order they run
    stagePc,           \* the loop or statement the worker is at
    stageLeft,         \* calls the current loop still has to make
    stageLog,          \* history: the stages run so far in this calculation
    \* --- the MoveShip loop and Prune(ships)
    mvShips,           \* the ship list
    mvRemoved,         \* ships whose ShouldBeRemoved() is true
    mvIdx,             \* position of the loop; 0 between two steps
    mvReady,           \* hasAntiMissile
    mvDestroyed,       \* history: DESTROY events MoveShip queued, per ship
    mvDone,            \* history: what MoveShip did with each ship this step
    mvIntercept,       \* history: the anti-missile pass for one projectile
    \* --- the collision test of DoCollisions for one projectile
    hitIn,             \* the projectile and the ships around it
    hitOut,            \* what it hit, and the ships TakeDamage was called on
    \* --- closestHit and hit as DoCollisions computes them
    impactIn,          \* the projectile and the answers of the queries
    impactOut,         \* closestHit and the kind of body hit
    \* --- the gates of DoGrudge for one hit
    reqIn,             \* the victim, the attacking government and its ships
    reqOut,            \* whether the victim asked for help
    \* --- SendHails
    hailIn,            \* the draws, the ship list and the ship picked
    hailOut,           \* the messages added, and the ship as it is left
    \* --- SpawnPersons
    personPc,          \* "idle", "summed" after the first loop, "picked"
    person             \* the frequencies, the draw and the person staged

syncVars == <<calcTickTock, drawTickTock, terminate, step, draw, fpc, wpc,
              eventQueue, events, doEnter,
              doClickNextStep, doClick, isRightClick, hasShift, clickPoint,
              groupSelect,
              last, inOrder, calcNo, emitted, calcDone, sinceWait, atWait,
                      lastFilled,
              tornDraw, pending, delivered, repeated, lost, captured, handled>>

stepVars == <<ships, projectiles, flotsam, visuals,
               newShips, newProjectiles, newFlotsam, newVisuals,
               removed, inSystem, fullZoom, cloaked, hasAntiMissile,
               shipCollisions, cloakedCollisions, drawList, spc, idx, nextId,
               flagship,
               markedPrev, createdNow, movedDead, collidedDead, drawnDead,
                       movedNew, collidedNew, atStart, movedNow, enteredNow,
                       shotDown>>


\* What an action of one part of the model leaves alone: the variables of
\* every other part.
Frame(own) ==
    /\ IF own = "sync" THEN TRUE ELSE UNCHANGED syncVars
    /\ IF own \in {"step", "table"} THEN TRUE ELSE UNCHANGED stepVars
    /\ IF own = "grudge" THEN TRUE
       ELSE /\ own = "table" \/ UNCHANGED grudge
            /\ UNCHANGED <<grudgeTime, shipGov, shipAlive, shipPresent,
                           shipDisabled, lastAttack, quietSteps>>
    /\ IF own = "fleet" THEN TRUE
       ELSE UNCHANGED <<allyStrength, enemyStrength, lastFleet>>
    /\ IF own = "blast" THEN TRUE
       ELSE UNCHANGED <<blastIn, blastOut, nullUse>>
    /\ IF own = "stage" THEN TRUE
       ELSE UNCHANGED <<stagePc, stageLeft, stageLog>>
    /\ IF own = "move" THEN TRUE
       ELSE UNCHANGED <<mvShips, mvRemoved, mvIdx, mvReady, mvDestroyed,
                       mvDone, mvIntercept>>
    /\ IF own = "hit" THEN TRUE
       ELSE UNCHANGED <<hitIn, hitOut>>
    /\ IF own = "impact" THEN TRUE
       ELSE UNCHANGED <<impactIn, impactOut>>
    /\ IF own = "hail" THEN TRUE
       ELSE UNCHANGED <<hailIn, hailOut>>
    /\ IF own = "req" THEN TRUE
       ELSE UNCHANGED <<reqIn, reqOut>>
    /\ IF own = "person" THEN TRUE
       ELSE UNCHANGED <<personPc, person>>

vars == <<syncVars, stepVars,
         grudge, grudgeTime, shipGov, shipAlive, shipPresent, shipDisabled,
         lastAttack, quietSteps, allyStrength, enemyStrength, lastFleet,
         blastIn, blastOut, nullUse, stagePc, stageLeft, stageLog, mvShips,
         mvRemoved, mvIdx, mvReady, mvDestroyed, mvDone, mvIntercept, hitIn,
         hitOut, impactIn, impactOut, reqIn, reqOut, personPc, person,
         hailIn, hailOut>>

\* ---------------------------------------------------------------- helpers
NoClick == [right |-> FALSE, shift |-> FALSE, point |-> 0, set |-> FALSE]
ClickInputs == [right |-> isRightClick, shift |-> hasShift,
                point |-> clickPoint, set |-> TRUE]

CalcPhases == {"calc", "moving", "clicks", "drawing"}

Range(s) == {s[i] : i \in 1..Len(s)}
WorkerEvents(s) == {e \in Range(s) : e[1] > 0}
\* The order Wait -> Step -> Go.
InOrderCall(c) ==
    CASE c = "Wait" -> last \in {"none", "Go"}
      [] c = "Step" -> last = "Wait"
      [] c = "Go"   -> last = "Step"

\* A Wait() that never blocks.
WaitMustBlock_Never == FALSE

\* Engine::Wait, the loop condition: while(calcTickTock != drawTickTock)
WaitMustBlock == calcTickTock # drawTickTock

\* The worker's comparison inverted.
WorkerMustWait_Inverted == calcTickTock # drawTickTock /\ ~terminate

\* ThreadEntryPoint, the loop condition:
\* while(calcTickTock == drawTickTock && !terminate)
WorkerMustWait == calcTickTock = drawTickTock /\ ~terminate

\* The calculation writing the slot that is being drawn.
CalcSlot_Draw == drawTickTock

\* CalculateStep: the slot it clears and fills, draw[calcTickTock].
CalcSlot == calcTickTock

\* grudge has no entry for the government / an entry whose weak_ptr is empty.
NoEntry == -1
EmptyEntry == 0

\* The governments: the player's and two others.
Governments == {"player", "pirate", "merchant"}

GrudgeShips == 1..MaxGrudgeShips

NoAttack == [attacker |-> "none", target |-> 0, cooled |-> FALSE,
             qualifies |-> FALSE, requester |-> NoEntry, gone |-> FALSE,
             away |-> FALSE, disabled |-> FALSE, outcome |-> "none"]

\* The calculation just begun returned at if(!player.GetSystem()) return;
NoSystemStep == [NoAttack EXCEPT !.outcome = "no system"]

BlastShips == 1..MaxBlastShips

\* No detonation resolved yet; `hit` and `target` are 0 for "none".
NoBlast == [hasGov |-> TRUE, safe |-> FALSE, blast |-> FALSE, hit |-> 0,
            target |-> 0, status |-> [s \in BlastShips |-> "far"],
            enemy |-> {}, reports |-> {}]

NoOutcome == [done |-> FALSE, damaged |-> {}, events |-> {}]

\* No collision test made yet.
NoHitIn == [hasGov |-> TRUE, phasing |-> FALSE, target |-> 0,
            trigger |-> FALSE, asteroid |-> FALSE, blast |-> FALSE,
            safe |-> FALSE,
            ships |-> [s \in BlastShips |->
                         [here |-> FALSE, cloaked |-> FALSE,
                          place |-> "far", enemy |-> FALSE]]]

NoHitOut == [done |-> FALSE, hit |-> 0, by |-> "none", damaged |-> {},
             grudge |-> {}]

\* No SendHails call made yet; source is the ship the draw picks.
NoHail == [due |-> FALSE, dead |-> FALSE, ships |-> 0, i |-> 0,
           source |-> [gov |-> "none", here |-> FALSE, disabled |-> FALSE,
                       crew |-> FALSE, cloaked |-> FALSE, hail |-> FALSE]]

\* No hit handed to DoGrudge yet.
NoReqIn == [targetPlayer |-> FALSE, attackerEnemy |-> FALSE,
            targetEnemy |-> FALSE, mute |-> FALSE, language |-> "none",
            targetStrength |-> 0, lucky |-> FALSE,
            ships |-> [a \in 1..MaxAttackers |->
                         [sameGov |-> FALSE, targets |-> FALSE,
                          strength |-> 0]]]

NoReqOut == [done |-> FALSE, raised |-> FALSE, entry |-> "kept",
             time |-> "kept"]

\* SpawnPersons has not run, or it returned.
NoPerson == [freq |-> [p \in 1..MaxPersons |-> 0], roll |-> 0, staged |-> 0,
             why |-> "none"]

\* ------------------------------------------------------------------- Init
Init ==
    \* After Engine::Engine: the worker thread has been started and the
    \* constructor has drawn the planets into draw[calcTickTock].
    /\ calcTickTock = FALSE
    /\ drawTickTock = FALSE
    /\ terminate = FALSE
    /\ step = 0
    /\ draw = [b \in BOOLEAN |->
                 IF b = FALSE THEN [state |-> "full", by |-> 0]
                              ELSE [state |-> "empty", by |-> 0]]
    /\ fpc = "idle"
    /\ wpc = "check"
    /\ eventQueue = <<>>
    /\ events = <<>>
    /\ doEnter = FALSE
    /\ doClickNextStep = FALSE
    /\ doClick = FALSE
    /\ isRightClick = FALSE
    /\ hasShift = FALSE
    /\ clickPoint = 0
    /\ groupSelect = -1
    /\ last = "none"
    /\ inOrder = TRUE
    /\ calcNo = 0
    /\ emitted = 0
    /\ calcDone = 0
    /\ sinceWait = [calcs |-> 0, gos |-> 0]
    /\ atWait = [n |-> 0, calcs |-> 0, gos |-> 0]
    /\ lastFilled = FALSE
    /\ tornDraw = FALSE
    /\ pending = {}
    /\ delivered = {}
    /\ repeated = {}
    /\ lost = {}
    /\ captured = NoClick
    /\ handled = NoClick
    \* After Engine::Place: the flagship is the one ship in the list, nothing
    \* else exists yet.
    /\ ships = <<1>>
    /\ projectiles = <<>> /\ flotsam = <<>> /\ visuals = <<>>
    /\ newShips = <<>> /\ newProjectiles = <<>>
    /\ newFlotsam = <<>> /\ newVisuals = <<>>
    /\ removed = {}
    /\ inSystem = {1} /\ fullZoom = {} /\ cloaked = {}
    /\ hasAntiMissile = <<>>
    /\ shipCollisions = {} /\ cloakedCollisions = {}
    /\ drawList = {}
    /\ spc = "idle" /\ idx = 1
    /\ nextId = 2
    /\ flagship = 0
    /\ markedPrev = {} /\ createdNow = {}
    /\ movedDead = {}
    /\ collidedDead = {} /\ drawnDead = {}
    /\ movedNew = {} /\ collidedNew = {}
    /\ atStart = [ships |-> <<>>, rest |-> <<>>]
    /\ movedNow = <<>> /\ enteredNow = FALSE
    /\ shotDown = {}
    \* After EnterSystem: grudge.clear(); grudgeTime starts at 0; no ship has
    \* arrived yet.
    /\ grudge = [g \in Governments |-> NoEntry]
    /\ grudgeTime = 0
    /\ shipGov = [ship \in GrudgeShips |-> "none"]
    /\ shipAlive = {}
    /\ shipPresent = {}
    /\ shipDisabled = {}
    /\ lastAttack = NoAttack
    /\ quietSteps = GrudgeCooldown
    \* Before the first ai.Step: no ship has been counted.
    /\ allyStrength = 0
    /\ enemyStrength = 0
    /\ lastFleet = [by |-> "none", hasGov |-> FALSE, placed |-> FALSE]
    /\ blastIn = NoBlast
    /\ blastOut = NoOutcome
    /\ nullUse = "none"
    \* The worker waits in ThreadEntryPoint; no calculation has run.
    /\ stagePc = "wait"
    /\ stageLeft = 0
    /\ stageLog = <<>>
    \* Between two steps, every ship in the list and none marked.
    /\ mvIntercept = [done |-> FALSE, missile |-> FALSE, collided |-> FALSE,
                       eligible |-> {}, succeeds |-> {}, attempts |-> <<>>,
                       killed |-> FALSE]
    /\ mvShips = [i \in 1..MaxMoveShips |-> i]
    /\ mvRemoved = {}
    /\ mvIdx = 0
    /\ mvReady = <<>>
    /\ mvDestroyed = [ship \in 1..MaxMoveShips |-> 0]
    /\ mvDone = [ship \in 1..MaxMoveShips |-> {}]
    /\ hitIn = NoHitIn
    /\ hitOut = NoHitOut
    /\ reqIn = NoReqIn
    /\ reqOut = NoReqOut
    /\ personPc = "idle"
    /\ person = NoPerson
    /\ hailIn = NoHail
    /\ hailOut = [done |-> FALSE, messages |-> <<>>, source |-> NoHail.source]
    /\ impactIn = [hasGov |-> TRUE, phasing |-> FALSE, target |-> FALSE,
                   targetRange |-> MaxFraction, radius |-> FALSE,
                   inCircle |-> {}, line |-> MaxFraction,
                   asteroid |-> MaxFraction]
    /\ impactOut = [done |-> FALSE, closestHit |-> MaxFraction,
                    hit |-> "none", triggered |-> FALSE]

\* ------------------------------------------------------------- foreground
\* Engine::Wait: the call takes swapMutex and evaluates the loop condition.
WaitCall(free) ==
    /\ fpc = "idle" /\ ~terminate
    /\ free \/ InOrderCall("Wait")
    /\ fpc' = "wait_check"
    /\ inOrder' = (inOrder /\ InOrderCall("Wait"))
    /\ UNCHANGED <<calcTickTock, drawTickTock, terminate, step, draw, wpc,
            eventQueue, events, doEnter, doClickNextStep, doClick,
            isRightClick, hasShift, clickPoint, groupSelect, last,
                   calcNo, emitted, calcDone, lastFilled, sinceWait, atWait,
                           tornDraw, pending, delivered, repeated, lost,
                   captured, handled>>
    /\ Frame("sync")

\* Engine::Wait: one evaluation of while(calcTickTock != drawTickTock);
\* either condition.wait(lock) or return.
F_WaitCheck ==
    /\ fpc = "wait_check"
    /\ IF WaitMustBlock
         THEN /\ fpc' = "wait_blocked"
              /\ UNCHANGED <<last, sinceWait, atWait>>
         ELSE /\ fpc' = "idle"
              /\ last' = "Wait"
              /\ atWait' = [n |-> IF atWait.n < 2 THEN atWait.n + 1 ELSE 2,
                            calcs |-> sinceWait.calcs,
                            gos |-> sinceWait.gos]
              /\ sinceWait' = [calcs |-> 0, gos |-> 0]
    /\ UNCHANGED <<calcTickTock, drawTickTock, terminate, step, draw, wpc,
            eventQueue, events, doEnter, doClickNextStep, doClick,
            isRightClick, hasShift, clickPoint, groupSelect, inOrder,
                   calcNo, emitted, calcDone, lastFilled, tornDraw, pending,
                           delivered, repeated, lost, captured, handled>>
    /\ Frame("sync")

\* The swap without the clear.
StepQueue_NoClear == events

\* Engine::Step: what eventQueue holds after swap and clear.
StepQueue == <<>>

StepBegin(free) ==
    /\ fpc = "idle" /\ ~terminate
    /\ free \/ InOrderCall("Step")
    /\ fpc' = "in_step"
    /\ inOrder' = (inOrder /\ InOrderCall("Step"))
    /\ \E jump \in BOOLEAN :
         /\ events' = IF doEnter /\ jump THEN Append(eventQueue, <<0, 0>>)
                      ELSE eventQueue
         /\ doEnter' = (doEnter /\ ~jump)
    /\ eventQueue' = StepQueue
    /\ LET now == WorkerEvents(events')
       IN /\ repeated' = repeated \cup (now \cap delivered)
          /\ delivered' = delivered \cup now
          /\ pending' = WorkerEvents(eventQueue')
          /\ lost' = lost \cup ((pending \ now) \ WorkerEvents(eventQueue'))
    /\ UNCHANGED <<calcTickTock, drawTickTock, terminate, step, draw, wpc,
            doClickNextStep, doClick, isRightClick, hasShift, clickPoint,
            groupSelect, last, calcNo, emitted, calcDone, lastFilled,
                   sinceWait, atWait, tornDraw, captured, handled>>
    /\ Frame("sync")

\* Engine::Step, last part: the group selection and the click capture.
\* player.SelectShips and escorts.Click are external: `consumed` says the
\* click selected ships and is not passed on to the worker.
F_StepEnd ==
    /\ fpc = "in_step"
    /\ fpc' = "idle"
    /\ last' = "Step"
    /\ groupSelect' = -1
    /\ doClickNextStep' = FALSE
    /\ IF doClickNextStep
         THEN IF ~isRightClick
                THEN \E consumed \in BOOLEAN :
                       /\ doClick' = ~consumed
                       /\ clickPoint' = IF consumed THEN clickPoint
                                        ELSE clickPoint \div ViewZoom
                ELSE doClick' = TRUE /\ clickPoint' = clickPoint
         ELSE doClick' = FALSE /\ clickPoint' = clickPoint
    /\ captured' = IF doClick'
                     THEN [right |-> isRightClick, shift |-> hasShift,
                           point |-> clickPoint', set |-> TRUE]
                     ELSE NoClick
    /\ handled' = NoClick
    /\ UNCHANGED <<calcTickTock, drawTickTock, terminate, step, draw, wpc,
            eventQueue, events, doEnter, isRightClick, hasShift,
                   inOrder, calcNo, emitted, calcDone, lastFilled, sinceWait,
                           atWait, tornDraw, pending, delivered, repeated,
                           lost>>
    /\ Frame("sync")

\* Engine::Go, the locked block: ++step; drawTickTock = !drawTickTock;
GoFlip == ~drawTickTock

GoLock(free) ==
    /\ fpc = "idle" /\ ~terminate
    /\ free \/ InOrderCall("Go")
    /\ step < MaxStep
    /\ fpc' = "go_notify"
    /\ inOrder' = (inOrder /\ InOrderCall("Go"))
    /\ step' = step + 1
    /\ drawTickTock' = GoFlip
    /\ sinceWait' = [sinceWait EXCEPT !.gos = @ + 1]
    /\ UNCHANGED <<calcTickTock, terminate, draw, wpc, eventQueue, events,
            doEnter, doClickNextStep, doClick, isRightClick, hasShift,
            clickPoint, groupSelect,
                   last, calcNo, emitted, calcDone, lastFilled, atWait,
                           tornDraw, pending, delivered, repeated, lost,
                           captured,
                   handled>>
    /\ Frame("sync")

\* Engine::Go: condition.notify_all();
F_GoNotify ==
    /\ fpc = "go_notify"
    /\ fpc' = "idle"
    /\ last' = "Go"
    /\ wpc' = IF wpc = "blocked" THEN "check" ELSE wpc
    /\ UNCHANGED <<calcTickTock, drawTickTock, terminate, step, draw,
            eventQueue, events, doEnter, doClickNextStep, doClick,
            isRightClick, hasShift, clickPoint, groupSelect, inOrder, calcNo,
            emitted, calcDone, lastFilled,
                   sinceWait, atWait, tornDraw, pending, delivered, repeated,
                           lost, captured, handled>>
    /\ Frame("sync")

\* Engine::Draw: draw[drawTickTock].Draw(); radar[drawTickTock].Draw(...)
F_Draw ==
    /\ fpc = "idle" /\ ~terminate
    /\ tornDraw' = (tornDraw \/ draw[drawTickTock].state = "partial")
    /\ UNCHANGED <<calcTickTock, drawTickTock, terminate, step, draw, fpc,
            wpc, eventQueue, events, doEnter, doClickNextStep, doClick,
            isRightClick, hasShift, clickPoint, groupSelect, last,
                   inOrder, calcNo, emitted, calcDone, lastFilled, sinceWait,
                           atWait, pending, delivered, repeated, lost,
                           captured,
                   handled>>
    /\ Frame("sync")

\* Engine::Click
F_Click ==
    /\ fpc = "idle" /\ ~terminate
    /\ \E p \in {ViewZoom * k : k \in 1..MaxPoint}, shift \in BOOLEAN :
         /\ doClickNextStep' = TRUE
         /\ hasShift' = shift
         /\ isRightClick' = FALSE
         /\ clickPoint' = p
    /\ UNCHANGED <<calcTickTock, drawTickTock, terminate, step, draw, fpc,
            wpc, eventQueue, events, doEnter, doClick,
                   groupSelect, last, inOrder, calcNo, emitted, calcDone,
                           lastFilled, sinceWait, atWait,
                   tornDraw, pending, delivered, repeated, lost, captured,
                           handled>>
    /\ Frame("sync")

\* Engine::RClick
F_RClick ==
    /\ fpc = "idle" /\ ~terminate
    /\ \E p \in {ViewZoom * k : k \in 1..MaxPoint} :
         /\ doClickNextStep' = TRUE
         /\ hasShift' = FALSE
         /\ isRightClick' = TRUE
         /\ clickPoint' = p \div ViewZoom
    /\ UNCHANGED <<calcTickTock, drawTickTock, terminate, step, draw, fpc,
            wpc, eventQueue, events, doEnter, doClick,
                   groupSelect, last, inOrder, calcNo, emitted, calcDone,
                           lastFilled, sinceWait, atWait,
                   tornDraw, pending, delivered, repeated, lost, captured,
                           handled>>
    /\ Frame("sync")

\* Engine::SelectGroup
F_SelectGroup ==
    /\ fpc = "idle" /\ ~terminate
    /\ groupSelect = -1
    /\ \E shift \in BOOLEAN :
         /\ groupSelect' = 0
         /\ hasShift' = shift
    /\ UNCHANGED <<calcTickTock, drawTickTock, terminate, step, draw, fpc,
            wpc, eventQueue, events, doEnter, doClickNextStep,
                   doClick, isRightClick, clickPoint, last, inOrder,
                   calcNo, emitted, calcDone, lastFilled, sinceWait, atWait,
                           tornDraw, pending, delivered, repeated, lost,
                   captured, handled>>
    /\ Frame("sync")

\* Engine::~Engine, the locked block: terminate = true;
F_DtorLock ==
    /\ fpc = "idle" /\ ~terminate
    /\ terminate' = TRUE
    /\ fpc' = "dtor_notify"
    /\ UNCHANGED <<calcTickTock, drawTickTock, step, draw, wpc, eventQueue,
            events, doEnter,
                   doClickNextStep, doClick, isRightClick, hasShift,
                           clickPoint, groupSelect, last, inOrder, calcNo,
                           emitted, calcDone, lastFilled, sinceWait, atWait,
                   tornDraw, pending, delivered, repeated, lost, captured,
                           handled>>
    /\ Frame("sync")

\* A destructor that does not notify.
DtorWake_None == wpc

\* Engine::~Engine: condition.notify_all();
DtorWake == IF wpc = "blocked" THEN "check" ELSE wpc

F_DtorNotify ==
    /\ fpc = "dtor_notify"
    /\ fpc' = "dtor_join"
    /\ wpc' = DtorWake
    /\ UNCHANGED <<calcTickTock, drawTickTock, terminate, step, draw,
            eventQueue, events, doEnter, doClickNextStep, doClick,
            isRightClick, hasShift, clickPoint, groupSelect, last, inOrder,
                   calcNo, emitted, calcDone, lastFilled, sinceWait, atWait,
                           tornDraw, pending, delivered, repeated, lost,
                   captured, handled>>
    /\ Frame("sync")

\* Engine::~Engine: calcThread.join(); then the members are destroyed.
F_DtorJoin ==
    /\ fpc = "dtor_join"
    /\ wpc = "exited"
    /\ fpc' = "destroyed"
    /\ UNCHANGED <<calcTickTock, drawTickTock, terminate, step, draw, wpc,
            eventQueue, events, doEnter, doClickNextStep, doClick,
            isRightClick, hasShift, clickPoint, groupSelect, last,
                   inOrder, calcNo, emitted, calcDone, lastFilled, sinceWait,
                           atWait, tornDraw, pending, delivered, repeated,
                           lost,
                   captured, handled>>
    /\ Frame("sync")

\* The foreground keeping to the order Wait -> Step -> Go.
F_WaitCall == WaitCall(FALSE)
F_StepBegin == StepBegin(FALSE)
F_GoLock == GoLock(FALSE)
\* The foreground calling in any order.
A_WaitCall == WaitCall(TRUE)
A_StepBegin == StepBegin(TRUE)
A_GoLock == GoLock(TRUE)

\* ----------------------------------------------------------------- worker
\* A worker that runs a requested calculation before it looks at terminate.
W_Check_PendingFirst ==
    /\ wpc = "check"
    /\ IF WorkerMustWait
         THEN wpc' = "blocked" /\ UNCHANGED <<calcNo, emitted>>
         ELSE IF terminate /\ calcTickTock = drawTickTock
                THEN wpc' = "exited" /\ UNCHANGED <<calcNo, emitted>>
                ELSE wpc' = "calc" /\ calcNo' = calcNo + 1 /\ emitted' = 0
    /\ UNCHANGED <<calcTickTock, drawTickTock, terminate, step, draw, fpc,
            eventQueue, events, doEnter, doClickNextStep, doClick,
            isRightClick, hasShift, clickPoint, groupSelect, last,
                   inOrder, calcDone, lastFilled, sinceWait, atWait,
                   tornDraw, pending, delivered, repeated, lost, captured,
                           handled>>
    /\ Frame("sync")

\* ThreadEntryPoint, the locked block at the top of the loop: one evaluation
\* of the wait condition, then if(terminate) break; else fall through to
\* CalculateStep().
W_Check ==
    /\ wpc = "check"
    /\ IF WorkerMustWait
         THEN wpc' = "blocked" /\ UNCHANGED <<calcNo, emitted>>
         ELSE IF terminate
                THEN wpc' = "exited" /\ UNCHANGED <<calcNo, emitted>>
                ELSE wpc' = "calc" /\ calcNo' = calcNo + 1 /\ emitted' = 0
    /\ UNCHANGED <<calcTickTock, drawTickTock, terminate, step, draw, fpc,
            eventQueue, events, doEnter, doClickNextStep, doClick,
            isRightClick, hasShift, clickPoint, groupSelect, last,
                   inOrder, calcDone, lastFilled, sinceWait, atWait,
                   tornDraw, pending, delivered, repeated, lost, captured,
                           handled>>
    /\ Frame("sync")

\* CalculateStep: draw[calcTickTock].Clear(step, zoom); radar[..].Clear();
\* if(!player.GetSystem()) return;
W_Clear ==
    /\ wpc = "calc"
    /\ \E hasSystem \in BOOLEAN :
         IF hasSystem
           THEN /\ draw' = [draw EXCEPT ![CalcSlot] =
                              [state |-> "partial", by |-> calcNo]]
                /\ wpc' = "moving"
                /\ UNCHANGED lastFilled
           ELSE /\ draw' = [draw EXCEPT ![CalcSlot] =
                              [state |-> "full", by |-> calcNo]]
                /\ wpc' = "publish"
                /\ lastFilled' = CalcSlot
    /\ UNCHANGED <<calcTickTock, drawTickTock, terminate, step, fpc,
            eventQueue, events, doEnter, doClickNextStep, doClick,
            isRightClick, hasShift, clickPoint, groupSelect, last, inOrder,
                   calcNo, emitted, calcDone, sinceWait, atWait, tornDraw,
                   pending, delivered, repeated, lost, captured, handled>>
    /\ Frame("sync")

\* CalculateStep: MoveShip, DoCollisions and DoScanning append an event to
\* eventQueue (eventQueue.emplace_back).
W_Emit ==
    /\ wpc \in {"moving", "drawing"}
    /\ emitted < MaxEvents
    /\ emitted' = emitted + 1
    /\ eventQueue' = Append(eventQueue, <<calcNo, emitted + 1>>)
    /\ pending' = pending \cup {<<calcNo, emitted + 1>>}
    /\ UNCHANGED <<calcTickTock, drawTickTock, terminate, step, draw, fpc,
            wpc, events, doEnter, doClickNextStep, doClick, isRightClick,
            hasShift, clickPoint, groupSelect,
                   last, inOrder, calcNo, calcDone, lastFilled, sinceWait,
                   atWait, tornDraw, delivered, repeated, lost, captured,
                   handled>>
    /\ Frame("sync")

\* CalculateStep -> EnterSystem: doEnter = true;
W_EnterSystem ==
    /\ wpc = "moving"
    /\ ~doEnter
    /\ doEnter' = TRUE
    /\ UNCHANGED <<calcTickTock, drawTickTock, terminate, step, draw, fpc,
            wpc, eventQueue, events, doClickNextStep, doClick, isRightClick,
            hasShift, clickPoint, groupSelect,
                   last, inOrder, calcNo, emitted, calcDone, lastFilled,
                           sinceWait, atWait, tornDraw,
                   pending, delivered, repeated, lost, captured, handled>>
    /\ Frame("sync")

\* CalculateStep: ai.Step, the MoveShip loop, the other Move loops, the
\* Prune calls and the spawners.
W_Move ==
    /\ wpc = "moving"
    /\ wpc' = "clicks"
    /\ UNCHANGED <<calcTickTock, drawTickTock, terminate, step, draw, fpc,
            eventQueue, events, doEnter, doClickNextStep, doClick,
            isRightClick, hasShift, clickPoint, groupSelect, last,
                   inOrder, calcNo, emitted, calcDone, lastFilled, sinceWait,
                           atWait, tornDraw, pending, delivered, repeated,
                           lost,
                   captured, handled>>
    /\ Frame("sync")

\* HandleMouseClicks: if(!doClick || !player.Flagship()) return; then reads
\* isRightClick, clickPoint and hasShift.
W_HandleMouseClicks ==
    /\ wpc = "clicks"
    /\ wpc' = "drawing"
    /\ \E hasFlagship \in BOOLEAN :
         handled' = IF doClick /\ hasFlagship THEN ClickInputs ELSE handled
    /\ UNCHANGED <<calcTickTock, drawTickTock, terminate, step, draw, fpc,
            eventQueue, events, doEnter, doClickNextStep, doClick,
            isRightClick, hasShift, clickPoint, groupSelect, last,
                   inOrder, calcNo, emitted, calcDone, lastFilled, sinceWait,
                           atWait, tornDraw, pending, delivered, repeated,
                           lost,
                   captured>>
    /\ Frame("sync")

\* A cancellable variant of the last part of CalculateStep: gives up when the
\* termination flag is set.
W_Fill_Cancel ==
    /\ wpc = "drawing"
    /\ wpc' = IF terminate THEN "exited" ELSE "publish"
    /\ draw' = [draw EXCEPT ![CalcSlot] =
                  [state |-> IF terminate THEN "partial" ELSE "full",
                   by |-> calcNo]]
    /\ lastFilled' = IF terminate THEN lastFilled ELSE CalcSlot
    /\ UNCHANGED <<calcTickTock, drawTickTock, terminate, step, fpc,
            eventQueue, events, doEnter, doClickNextStep, doClick,
            isRightClick, hasShift, clickPoint, groupSelect, last, inOrder,
                   calcNo, emitted, calcDone, sinceWait, atWait, tornDraw,
                   pending, delivered, repeated, lost, captured, handled>>
    /\ Frame("sync")

\* CalculateStep, the rest: the merge, DoCollisions / DoScanning (which
\* append events to eventQueue), FillRadar and the draw-list fill of
\* draw[calcTickTock]; the function then returns.
W_Fill ==
    /\ wpc = "drawing"
    /\ wpc' = "publish"
    /\ draw' = [draw EXCEPT ![CalcSlot] =
                  [state |-> "full", by |-> calcNo]]
    /\ lastFilled' = CalcSlot
    /\ UNCHANGED <<calcTickTock, drawTickTock, terminate, step, fpc,
            eventQueue, events, doEnter, doClickNextStep, doClick,
            isRightClick, hasShift, clickPoint, groupSelect, last, inOrder,
                   calcNo, emitted, calcDone, sinceWait, atWait, tornDraw,
                   pending, delivered, repeated, lost, captured, handled>>
    /\ Frame("sync")

\* ThreadEntryPoint, the locked block after CalculateStep:
\* calcTickTock = drawTickTock;
W_Publish ==
    /\ wpc = "publish"
    /\ wpc' = "notify"
    /\ calcTickTock' = drawTickTock
    /\ calcDone' = calcDone + 1
    /\ sinceWait' = [sinceWait EXCEPT !.calcs = @ + 1]
    /\ UNCHANGED <<drawTickTock, terminate, step, draw, fpc, eventQueue,
            events, doEnter,
                   doClickNextStep, doClick, isRightClick, hasShift,
                           clickPoint, groupSelect, last, inOrder, calcNo,
                           emitted, lastFilled,
                   atWait,
                   tornDraw, pending, delivered, repeated, lost, captured,
                           handled>>
    /\ Frame("sync")

\* ThreadEntryPoint: condition.notify_one(); and back to the top of the loop.
W_Notify ==
    /\ wpc = "notify"
    /\ wpc' = "check"
    /\ fpc' = IF fpc = "wait_blocked" THEN "wait_check" ELSE fpc
    /\ UNCHANGED <<calcTickTock, drawTickTock, terminate, step, draw,
            eventQueue, events, doEnter, doClickNextStep, doClick,
            isRightClick, hasShift, clickPoint, groupSelect, last, inOrder,
                   calcNo, emitted, calcDone, lastFilled, sinceWait, atWait,
                           tornDraw, pending, delivered, repeated, lost,
                   captured, handled>>
    /\ Frame("sync")

Threads ==
    \/ F_WaitCheck \/ F_StepEnd \/ F_GoNotify \/ F_Draw
    \/ F_DtorLock \/ F_DtorNotify \/ F_DtorJoin
    \/ W_Check \/ W_Clear \/ W_Move \/ W_HandleMouseClicks \/ W_Fill
    \/ W_Publish \/ W_Notify

Next ==
    \/ F_WaitCall \/ F_StepBegin \/ F_GoLock
    \/ F_Click \/ F_RClick \/ F_SelectGroup
    \/ Threads

Spec == Init /\ [][Next]_vars

EventNext ==
    \/ F_WaitCall \/ F_StepBegin \/ F_GoLock
    \/ W_Emit \/ W_EnterSystem
    \/ Threads

EventSpec == Init /\ [][EventNext]_vars

AnyNext == A_WaitCall \/ A_StepBegin \/ A_GoLock \/ Threads

AnySpec == Init /\ [][AnyNext]_vars

\* The worker thread is scheduled; the destructor, once entered, runs on.
FairSpec ==
    /\ AnySpec
    /\ WF_vars(W_Check \/ W_Clear \/ W_Move \/ W_HandleMouseClicks \/ W_Fill
                  \/ W_Publish \/ W_Notify)
    /\ WF_vars(F_DtorNotify)
    /\ WF_vars(F_DtorJoin)

\* =========================================================== entity store
\* Prune(list<shared_ptr<Type>> &): erase every element that should be
\* removed, walking the list front to back.
RECURSIVE PruneList(_, _)
PruneList(objects, dead) ==
    IF objects = <<>> THEN <<>>
    ELSE IF Head(objects) \in dead
           THEN PruneList(Tail(objects), dead)
           ELSE <<Head(objects)>> \o PruneList(Tail(objects), dead)

\* Prune(vector<Type> &), first loop: advance `in` to the first element that
\* should be removed.
RECURSIVE FirstRemoved(_, _, _)
FirstRemoved(objects, dead, in) ==
    IF in <= Len(objects) /\ objects[in] \notin dead
      THEN FirstRemoved(objects, dead, in + 1)
      ELSE in

\* Prune(vector<Type> &), second loop: move the survivors down over the
\* removed elements, then erase the tail.
RECURSIVE Compact(_, _, _, _)
Compact(objects, dead, in, out) ==
    IF in > Len(objects)
      THEN SubSeq(objects, 1, out - 1)
      ELSE IF objects[in] \notin dead
             THEN Compact([objects EXCEPT ![out] = objects[in]], dead,
                          in + 1, out + 1)
             ELSE Compact(objects, dead, in + 1, out)

\* A Prune that erases from the first removed element to the end.
PruneVector_EraseOnly(objects, dead) ==
    SubSeq(objects, 1, FirstRemoved(objects, dead, 1) - 1)

\* Prune(vector<Type> &): both loops, then objects.erase(out, objects.end()).
PruneVector(objects, dead) ==
    Compact(objects, dead, FirstRemoved(objects, dead, 1),
            FirstRemoved(objects, dead, 1))

\* What one call may create: nothing, or one entity of one of `kinds`.
Makes(kinds) == {"none"} \cup (IF nextId <= MaxEntities THEN kinds ELSE {})

\* push_back / emplace_back of the created entity on the buffer of its kind.
Staged(buffer, kind, make) ==
    IF make = kind THEN Append(buffer, nextId) ELSE buffer

Created(make) == IF make = "none" THEN {} ELSE {nextId}

\* The objects a Prune or a clear() destroyed.
Gone(before, after) == Range(before) \ Range(after)

\* CalculateStep, up to the MoveShip loop: draw[calcTickTock].Clear(..);
\* ai.Step; DeployDefense(newShips); flagship = player.Flagship().
S_Begin ==
    /\ spc = "idle"
    /\ spc' = "ships" /\ idx' = 1
    \* player.Flagship(): the player's first ship, while it is listed.
    /\ flagship' = IF 1 \in Range(ships) THEN 1 ELSE 0
    /\ drawList' = {}
    /\ markedPrev' = removed
    /\ movedDead' = {}
    /\ collidedNew' = {}
    /\ atStart' = [ships |-> ships,
                   rest |-> flotsam \o projectiles \o visuals]
    /\ movedNow' = <<>>
    /\ enteredNow' = FALSE
    /\ \E make \in Makes({"ship"}), here \in BOOLEAN :
         /\ here => make = "ship"
         /\ newShips' = Staged(newShips, "ship", make)
         /\ createdNow' = Created(make)
         /\ nextId' = nextId + Cardinality(Created(make))
         /\ inSystem' = IF here THEN inSystem \cup {nextId} ELSE inSystem
    /\ UNCHANGED <<ships, projectiles, flotsam, visuals, newProjectiles,
            newFlotsam, newVisuals,
                   removed, fullZoom, cloaked, hasAntiMissile,
                           shipCollisions, cloakedCollisions,
                   collidedDead, drawnDead, movedNew, shotDown>>
    /\ Frame("step")

\* CalculateStep when the player has no system: the draw list is cleared and
\* the step returns.
S_NoSystem ==
    /\ spc = "idle"
    /\ drawList' = {}
    /\ markedPrev' = removed
    /\ createdNow' = {}
    /\ movedDead' = {}
    /\ collidedNew' = {}
    /\ atStart' = [ships |-> ships,
                   rest |-> flotsam \o projectiles \o visuals]
    /\ movedNow' = <<>>
    /\ enteredNow' = FALSE
    /\ UNCHANGED <<ships, projectiles, flotsam, visuals, newShips,
            newProjectiles, newFlotsam, newVisuals, removed, inSystem,
            fullZoom, cloaked, hasAntiMissile,
                   shipCollisions, cloakedCollisions, spc, idx, nextId,
                           flagship, collidedDead,
                   drawnDead, movedNew, shotDown>>
    /\ Frame("step")

\* History of one Move call on entity e.
MoveHist(e) ==
    /\ movedDead' = IF e \in markedPrev THEN movedDead \cup {e} ELSE movedDead
    /\ movedNew' = IF e \in createdNow THEN movedNew \cup {e} ELSE movedNew
    /\ movedNow' = Append(movedNow, e)

Toggle(set, e, on) == IF on THEN (set \ {e}) \cup ({e} \ set) ELSE set

\* MoveShip for ships[idx]: ship->Move(newVisuals, newFlotsam), which may
\* take the ship to another system or back; return if it ShouldBeRemoved;
\* return if it is not in the player's system; ship->Launch(newShips);
\* if(ship->Fire(newProjectiles, newVisuals)) hasAntiMissile.push_back(ship).
S_MoveShip ==
    /\ spc = "ships" /\ idx <= Len(ships)
    /\ idx' = idx + 1
    /\ LET e == ships[idx] IN
       \E dies \in BOOLEAN, jumps \in BOOLEAN, ready \in BOOLEAN :
         /\ dies => (~jumps /\ ~ready)
         /\ removed' = IF dies THEN removed \cup {e} ELSE removed
         /\ ready => e \in Toggle(inSystem, e, jumps)
         /\ hasAntiMissile' = IF ready THEN Append(hasAntiMissile, e)
                                       ELSE hasAntiMissile
         /\ MoveHist(e)
         /\ \E make \in Makes(IF ~dies /\ e \in Toggle(inSystem, e, jumps)
                                THEN {"visual", "flotsam", "ship",
                                      "projectile"}
                                ELSE {"visual", "flotsam"}) :
              /\ inSystem' = Toggle(inSystem, e, jumps)
                                \cup (IF make = "ship" THEN {nextId} ELSE {})
              /\ newVisuals' = Staged(newVisuals, "visual", make)
              /\ newFlotsam' = Staged(newFlotsam, "flotsam", make)
              /\ newShips' = Staged(newShips, "ship", make)
              /\ newProjectiles' = Staged(newProjectiles, "projectile", make)
              /\ createdNow' = createdNow \cup Created(make)
              /\ nextId' = nextId + Cardinality(Created(make))
    /\ UNCHANGED <<ships, projectiles, flotsam, visuals, fullZoom, cloaked,
            shipCollisions, cloakedCollisions, drawList,
                   spc, flagship, markedPrev, collidedDead, drawnDead,
                   collidedNew, atStart, enteredNow, shotDown>>
    /\ Frame("step")

\* An EnterSystem() that every step would call.
\* A step that never notices that the flagship changed system.
EnterSystemDue_Never == FALSE

EnterSystemDue_Always == TRUE

\* CalculateStep: if(flagship && player.GetSystem() != flagship->GetSystem())
EnterSystemDue == flagship # 0 /\ flagship \notin inSystem

\* CalculateStep after the MoveShip loop: EnterSystem() when the flagship has
\* entered a new system (fleets are placed straight into `ships`; the
\* projectiles, visuals and flotsam, live and staged, are cleared);
\* Prune(ships); asteroids.Step(newVisuals, newFlotsam).
S_AfterShips ==
    /\ spc = "ships" /\ idx > Len(ships)
    /\ spc' = "flotsam" /\ idx' = 1
    /\ \E place \in BOOLEAN, make \in Makes({"visual", "flotsam"}) :
         LET placed == IF place THEN Append(ships, nextId) ELSE ships
             fleet == IF place THEN {nextId} ELSE {}
             \* What EnterSystem's clear() calls destroy.
             cleared ==
                 IF EnterSystemDue
                 THEN Range(projectiles) \cup Range(visuals)
                        \cup Range(flotsam) \cup Range(newProjectiles)
                        \cup Range(newVisuals) \cup Range(newFlotsam)
                 ELSE {}
             gone == Gone(placed, PruneList(placed, removed)) \cup cleared
         IN
         /\ place => (EnterSystemDue /\ make = "none" /\ nextId <= MaxEntities)
         /\ ships' = PruneList(placed, removed)
         /\ projectiles' = IF EnterSystemDue THEN <<>> ELSE projectiles
         /\ visuals' = IF EnterSystemDue THEN <<>> ELSE visuals
         /\ flotsam' = IF EnterSystemDue THEN <<>> ELSE flotsam
         /\ newProjectiles' = IF EnterSystemDue THEN <<>> ELSE newProjectiles
         /\ newVisuals' = Staged(IF EnterSystemDue THEN <<>> ELSE newVisuals,
                                 "visual", make)
         /\ newFlotsam' = Staged(IF EnterSystemDue THEN <<>> ELSE newFlotsam,
                                 "flotsam", make)
         /\ createdNow' = ((createdNow \ cleared) \cup Created(make))
                              \cup fleet
         /\ nextId' = nextId + Cardinality(Created(make) \cup fleet)
         /\ removed' = removed \ gone
         /\ inSystem' = (IF EnterSystemDue THEN {flagship} \cup fleet
                                           ELSE inSystem) \ gone
    /\ enteredNow' = EnterSystemDue
    \* EnterSystem: grudge.clear();
    /\ grudge' = IF EnterSystemDue THEN [g \in Governments |-> NoEntry]
                 ELSE grudge
    /\ UNCHANGED <<atStart, movedNow, shotDown>>
    /\ UNCHANGED <<newShips, fullZoom, cloaked, hasAntiMissile,
            shipCollisions, cloakedCollisions, drawList,
                   flagship, markedPrev, movedDead, collidedDead, drawnDead,
                   movedNew, collidedNew>>
    /\ Frame("table")

\* The Move of a flotsam, a projectile or a visual: it may mark itself for
\* removal and may create one entity of one of `kinds`.
MoveOne(e, kinds) ==
    \E dies \in BOOLEAN, make \in Makes(kinds) :
      /\ removed' = IF dies THEN removed \cup {e} ELSE removed
      /\ MoveHist(e)
      /\ newVisuals' = Staged(newVisuals, "visual", make)
      /\ newProjectiles' = Staged(newProjectiles, "projectile", make)
      /\ createdNow' = createdNow \cup Created(make)
      /\ nextId' = nextId + Cardinality(Created(make))

\* CalculateStep: for(flotsam) it->Move(newVisuals);
S_MoveFlotsam ==
    /\ spc = "flotsam" /\ idx <= Len(flotsam)
    /\ idx' = idx + 1
    /\ MoveOne(flotsam[idx], {"visual"})
    /\ UNCHANGED <<ships, projectiles, flotsam, visuals, newShips,
            newFlotsam, inSystem, fullZoom, cloaked, hasAntiMissile,
            shipCollisions, cloakedCollisions, drawList, spc, flagship,
            markedPrev, collidedDead, drawnDead, collidedNew, atStart,
            enteredNow, shotDown>>
    /\ Frame("step")

\* CalculateStep: Prune(flotsam);
S_PruneFlotsam ==
    /\ spc = "flotsam" /\ idx > Len(flotsam)
    /\ spc' = "projectiles" /\ idx' = 1
    /\ flotsam' = PruneList(flotsam, removed)
    /\ removed' = removed \ Gone(flotsam, PruneList(flotsam, removed))
    /\ UNCHANGED <<ships, projectiles, visuals>>
    /\ UNCHANGED <<newShips, newProjectiles, newFlotsam, newVisuals,
            inSystem, fullZoom, cloaked, hasAntiMissile, shipCollisions,
            cloakedCollisions, drawList, nextId, flagship, markedPrev,
            createdNow, movedDead, collidedDead, drawnDead, movedNew,
            collidedNew, atStart, movedNow, enteredNow, shotDown>>
    /\ Frame("step")

\* CalculateStep: for(projectiles) projectile.Move(newVisuals, newProjectiles);
S_MoveProjectile ==
    /\ spc = "projectiles" /\ idx <= Len(projectiles)
    /\ idx' = idx + 1
    /\ MoveOne(projectiles[idx], {"visual", "projectile"})
    /\ UNCHANGED <<ships, projectiles, flotsam, visuals, newShips,
            newFlotsam, inSystem, fullZoom, cloaked, hasAntiMissile,
            shipCollisions, cloakedCollisions, drawList, spc, flagship,
            markedPrev, collidedDead, drawnDead, collidedNew, atStart,
            enteredNow, shotDown>>
    /\ Frame("step")

\* CalculateStep: Prune(projectiles);
S_PruneProjectiles ==
    /\ spc = "projectiles" /\ idx > Len(projectiles)
    /\ spc' = "visuals" /\ idx' = 1
    /\ projectiles' = PruneVector(projectiles, removed)
    /\ removed' = removed \ Gone(projectiles, PruneVector(projectiles,
            removed))
    /\ UNCHANGED <<ships, flotsam, visuals>>
    /\ UNCHANGED <<newShips, newProjectiles, newFlotsam, newVisuals,
            inSystem, fullZoom, cloaked, hasAntiMissile, shipCollisions,
            cloakedCollisions, drawList, nextId, flagship, markedPrev,
            createdNow, movedDead, collidedDead, drawnDead, movedNew,
            collidedNew, atStart, movedNow, enteredNow, shotDown>>
    /\ Frame("step")

\* CalculateStep: for(visuals) visual.Move();
S_MoveVisual ==
    /\ spc = "visuals" /\ idx <= Len(visuals)
    /\ idx' = idx + 1
    /\ MoveOne(visuals[idx], {})
    /\ UNCHANGED <<ships, projectiles, flotsam, visuals, newShips,
            newFlotsam, inSystem, fullZoom, cloaked, hasAntiMissile,
            shipCollisions, cloakedCollisions, drawList, spc, flagship,
            markedPrev, collidedDead, drawnDead, collidedNew, atStart,
            enteredNow, shotDown>>
    /\ Frame("step")

\* CalculateStep: Prune(visuals);
S_PruneVisuals ==
    /\ spc = "visuals" /\ idx > Len(visuals)
    /\ spc' = "spawn" /\ idx' = 1
    /\ visuals' = PruneVector(visuals, removed)
    /\ removed' = removed \ Gone(visuals, PruneVector(visuals, removed))
    /\ UNCHANGED <<ships, projectiles, flotsam>>
    /\ UNCHANGED <<newShips, newProjectiles, newFlotsam, newVisuals,
            inSystem, fullZoom, cloaked, hasAntiMissile, shipCollisions,
            cloakedCollisions, drawList, nextId, flagship, markedPrev,
            createdNow, movedDead, collidedDead, drawnDead, movedNew,
            collidedNew, atStart, movedNow, enteredNow, shotDown>>
    /\ Frame("step")

\* CalculateStep: SpawnFleets(); SpawnPersons(); SendHails();
\* HandleMouseClicks();
S_Spawn ==
    /\ spc = "spawn"
    /\ spc' = "merge"
    \* A fleet arriving (fleet.Enter(*system, newShips)) or a person ship
    \* (newShips.push_back) is staged; it starts in the player's system
    \* (here) or in a neighbouring one.
    /\ \E make \in Makes({"ship"}), here \in BOOLEAN :
         /\ here => make = "ship"
         /\ newShips' = Staged(newShips, "ship", make)
         /\ createdNow' = createdNow \cup Created(make)
         /\ nextId' = nextId + Cardinality(Created(make))
         /\ inSystem' = IF here THEN inSystem \cup {nextId} ELSE inSystem
    /\ UNCHANGED <<ships, projectiles, flotsam, visuals, newProjectiles,
            newFlotsam, newVisuals,
                   removed, fullZoom, cloaked, hasAntiMissile,
                           shipCollisions, cloakedCollisions, drawList,
                   idx, flagship, markedPrev, movedDead, collidedDead,
                   drawnDead, movedNew, collidedNew, atStart, movedNow,
                           enteredNow, shotDown>>
    /\ Frame("step")

\* FillCollisionSets reading the ship list as it was before the splice.
FillFrom_BeforeSplice == ships

\* FillCollisionSets: for(it : ships), the list after the splice.
FillFrom == ships \o newShips

\* FillCollisionSets: the ships it adds to a collision set are those of the
\* player's system at Zoom() == 1.
Collidable(atZoom) == {e \in Range(FillFrom) : e \in inSystem /\ e \in atZoom}

\* An Append that clears `added` without inserting it.
Appended_Nothing(objects, added) == objects

\* Append(objects, added): objects.insert(objects.end(), added.begin(),
\* added.end()).
Appended(objects, added) == objects \o added

\* CalculateStep: the four splices / Appends, then FillCollisionSets(); the
\* ships at Cloaking() == 1. go to cloakedCollisions, the others to
\* shipCollisions. Zoom() and Cloaking() are what Ship::Move left them.
S_Merge ==
    /\ spc = "merge"
    /\ spc' = "collide" /\ idx' = 1
    /\ ships' = ships \o newShips
    /\ projectiles' = Appended(projectiles, newProjectiles)
    /\ flotsam' = flotsam \o newFlotsam
    /\ visuals' = Appended(visuals, newVisuals)
    /\ newShips' = <<>> /\ newProjectiles' = <<>>
    /\ newFlotsam' = <<>> /\ newVisuals' = <<>>
    /\ \E atZoom \in SUBSET (Range(ships \o newShips) \cap inSystem) :
       \E hidden \in SUBSET atZoom :
         /\ fullZoom' = atZoom
         /\ cloaked' = hidden
         /\ shipCollisions' = Collidable(atZoom) \ hidden
         /\ cloakedCollisions' = Collidable(atZoom) \cap hidden
         /\ collidedDead' =
              collidedDead \cup (Collidable(atZoom) \cap markedPrev)
         /\ collidedNew' =
              collidedNew \cup (Collidable(atZoom) \cap createdNow)
    /\ atStart' = [ships |-> <<>>, rest |-> <<>>] /\ movedNow' = <<>>
    /\ shotDown' = {}
    /\ UNCHANGED <<removed, inSystem, hasAntiMissile, drawList, nextId,
                   flagship, markedPrev, createdNow, movedDead, drawnDead,
                   movedNew, enteredNow>>
    /\ Frame("step")

\* History of one DoCollisions or DoCollection call on entity e.
CollideHist(e) ==
    /\ collidedDead' = IF e \in markedPrev THEN collidedDead \cup {e}
                       ELSE collidedDead
    /\ collidedNew' = IF e \in createdNow THEN collidedNew \cup {e}
                      ELSE collidedNew

\* DoCollisions(projectiles[idx]): a hit explodes the projectile
\* (projectile.Explode(visuals, ..) puts its visual straight into `visuals`);
\* a missile that hit nothing may be shot down by a ship of hasAntiMissile
\* (FireAntiMissile(projectile, visuals), projectile.Kill()).
S_DoCollisions ==
    /\ spc = "collide" /\ idx <= Len(projectiles)
    /\ idx' = idx + 1
    /\ LET p == projectiles[idx] IN
       \E outcome \in {"miss", "hit", "killed"}, make \in Makes({"visual"}) :
         /\ outcome = "killed" => hasAntiMissile # <<>>
         /\ outcome = "miss" => make = "none"
         \* Projectile::Explode and Projectile::Kill destroy the projectile.
         /\ removed' = IF outcome = "miss" THEN removed
                       ELSE removed \cup {p}
         /\ visuals' = Staged(visuals, "visual", make)
         /\ createdNow' = createdNow \cup Created(make)
         /\ nextId' = nextId + Cardinality(Created(make))
         /\ CollideHist(p)
         /\ shotDown' = IF outcome = "killed" THEN shotDown \cup {p}
                        ELSE shotDown
         \* if(hit) DoGrudge(hit, projectile.GetGovernment()); which may
         \* register the ship hit under the attacker: grudge[attacker] = target;
         /\ \E attacker \in {"pirate"}, hit \in shipCollisions \cup {0} :
              /\ outcome # "hit" => hit = 0
              /\ grudge' = IF hit = 0 THEN grudge
                           ELSE [grudge EXCEPT ![attacker] = hit]
    /\ UNCHANGED <<ships, projectiles, flotsam, newShips, newProjectiles,
            newFlotsam, newVisuals, inSystem, fullZoom, cloaked,
                   hasAntiMissile, shipCollisions, cloakedCollisions,
                           drawList, spc, flagship,
                   markedPrev, movedDead, drawnDead, movedNew, atStart,
                           movedNow, enteredNow>>
    /\ Frame("table")

S_EndCollisions_KeepCache ==
    /\ spc = "collide" /\ idx > Len(projectiles)
    /\ spc' = "collect" /\ idx' = 1
    /\ UNCHANGED <<ships, projectiles, flotsam, visuals, newShips,
            newProjectiles, newFlotsam, newVisuals, removed, inSystem,
            fullZoom, cloaked, hasAntiMissile, shipCollisions,
            cloakedCollisions, drawList, nextId, flagship, markedPrev,
            createdNow, movedDead, collidedDead, drawnDead, movedNew,
            collidedNew, atStart, movedNow, enteredNow, shotDown>>
    /\ Frame("step")

\* CalculateStep after the DoCollisions loop: hasAntiMissile.clear();
S_EndCollisions ==
    /\ spc = "collide" /\ idx > Len(projectiles)
    /\ spc' = "collect" /\ idx' = 1
    /\ hasAntiMissile' = <<>>
    /\ UNCHANGED <<ships, projectiles, flotsam, visuals, newShips,
            newProjectiles, newFlotsam, newVisuals, removed, inSystem,
            fullZoom, cloaked, shipCollisions, cloakedCollisions,
                   drawList, nextId, flagship, markedPrev, createdNow,
                           movedDead, collidedDead, drawnDead, movedNew,
                           collidedNew, atStart, movedNow, enteredNow,
                           shotDown>>
    /\ Frame("step")

\* DoCollection(flotsam[idx]): a ship of shipCollisions within reach collects
\* it (flotsam.TransferTo(collector)).
S_DoCollection ==
    /\ spc = "collect" /\ idx <= Len(flotsam)
    /\ idx' = idx + 1
    /\ LET f == flotsam[idx] IN
       \E collected \in BOOLEAN, whole \in BOOLEAN :
         /\ collected => shipCollisions # {}
         /\ whole => collected
         \* Flotsam::TransferTo destroys the flotsam picked up whole.
         /\ removed' = IF collected /\ whole THEN removed \cup {f}
                       ELSE removed
         /\ CollideHist(f)
    /\ UNCHANGED <<ships, projectiles, flotsam, visuals, newShips,
            newProjectiles, newFlotsam, newVisuals, inSystem, fullZoom,
            cloaked, hasAntiMissile,
                   shipCollisions, cloakedCollisions, drawList, spc, nextId,
                           flagship,
                   markedPrev, createdNow, movedDead, drawnDead, movedNew,
                   atStart, movedNow, enteredNow, shotDown>>
    /\ Frame("step")

\* A draw-list fill that leaves the visuals out.
DrawnEntities_NoVisuals ==
    Range(flotsam)
      \cup {e \in Range(ships) : e \in inSystem /\ e # flagship}
      \cup (IF flagship # 0 THEN {flagship} ELSE {})
      \cup Range(projectiles)

\* CalculateStep, the draw-list fill: the flotsam, the ships of the system
\* other than the flagship, the flagship, the projectiles, the visuals.
DrawnEntities ==
    Range(flotsam)
      \cup {e \in Range(ships) : e \in inSystem /\ e # flagship}
      \cup (IF flagship # 0 THEN {flagship} ELSE {})
      \cup Range(projectiles) \cup Range(visuals)

\* CalculateStep: DoScanning, FillRadar and the draw-list fill; the step ends.
S_Draw ==
    /\ spc = "collect" /\ idx > Len(flotsam)
    /\ spc' = "idle" /\ idx' = 1
    /\ drawList' = DrawnEntities
    /\ drawnDead' = drawnDead \cup (DrawnEntities \cap markedPrev)
    /\ UNCHANGED <<ships, projectiles, flotsam, visuals, newShips,
            newProjectiles, newFlotsam, newVisuals, removed, inSystem,
            fullZoom, cloaked, hasAntiMissile,
                   shipCollisions, cloakedCollisions, nextId, flagship,
                           markedPrev, createdNow,
                   movedDead, collidedDead, movedNew, collidedNew, atStart,
                           movedNow, enteredNow,
                   shotDown>>
    /\ Frame("step")

StepNext ==
    \/ S_Begin \/ S_NoSystem \/ S_MoveShip \/ S_AfterShips
    \/ S_MoveFlotsam \/ S_PruneFlotsam
    \/ S_MoveProjectile \/ S_PruneProjectiles
    \/ S_MoveVisual \/ S_PruneVisuals
    \/ S_Spawn \/ S_Merge
    \/ S_DoCollisions \/ S_EndCollisions
    \/ S_DoCollection \/ S_Draw

StepSpec == Init /\ [][StepNext]_vars

\* ==================================================== assistance requests
\* weak_ptr::lock() on grudge[g]: the ship, or null once it is destroyed or
\* the entry was reset or never assigned.
Lock(g) == IF grudge[g] \in shipAlive THEN grudge[g] ELSE 0

\* A DoGrudge that lets every attack through.
Suppressed_Never(attacker) == FALSE

\* DoGrudge: if(grudge.count(attacker)) { previous = grudge[attacker].lock();
\* if(!previous || (previous->GetSystem() == player.GetSystem()
\* && !previous->IsDisabled())) return; }
Suppressed(attacker) ==
    /\ grudge[attacker] # NoEntry
    /\ \/ Lock(attacker) = 0
       \/ Lock(attacker) \in shipPresent /\ Lock(attacker) \notin shipDisabled

\* What the attack found: the cooldown, the gates, and the ship registered
\* in the entry looked up.
Found(target, attacker, qualifies, outcome) ==
    LET key == IF attacker = "player" THEN shipGov[target] ELSE attacker IN
    [attacker |-> attacker, target |-> target, cooled |-> grudgeTime = 0,
     qualifies |-> qualifies, requester |-> grudge[key],
     gone |-> grudge[key] \notin shipAlive,
     away |-> grudge[key] \notin shipPresent,
     disabled |-> grudge[key] \in shipDisabled,
     outcome |-> outcome]

\* A thank-you that leaves the entry as it is.
Thanked_Kept(g) == grudge[g]

\* DoGrudge, the player's branch once previous is a ship in the system
\* that is not disabled: grudge[target->GetGovernment()].reset();
Thanked(g) == EmptyEntry

\* DoGrudge(target, attacker), called for the ship a projectile hit.
\* `qualifies` stands for the gates of lines 1893-1923: the target is not the
\* player's, the attacker is the player's enemy, the target is not, it is
\* not mute, its language is known, the attackers are stronger, and the
\* random draw succeeds.
G_DoGrudge ==
    \E target \in shipAlive \cap shipPresent, attacker \in Governments,
       qualifies \in BOOLEAN :
      /\ lastAttack # NoSystemStep
      /\ qualifies => /\ shipGov[target] # "player" /\ attacker # "player"
                      /\ shipGov[target] # attacker
      /\ IF attacker = "player"
           THEN LET g == shipGov[target]
                    \* if(previous && previous->GetSystem()
                    \*     == player.GetSystem() && !previous->IsDisabled())
                    due == /\ Lock(g) # 0
                           /\ Lock(g) \in shipPresent
                           /\ Lock(g) \notin shipDisabled
                IN
                /\ grudge' = [grudge EXCEPT ![g] =
                                IF due THEN Thanked(g)
                                ELSE IF @ = NoEntry THEN EmptyEntry
                                ELSE @]
                /\ grudgeTime' = grudgeTime
                /\ quietSteps' = quietSteps
                /\ lastAttack' = Found(target, attacker, qualifies,
                                       IF due THEN "thanked"
                                       ELSE "player")
           ELSE IF grudgeTime # 0
           THEN /\ UNCHANGED <<grudge, grudgeTime, quietSteps>>
                /\ lastAttack' = Found(target, attacker, qualifies, "cooldown")
           ELSE IF Suppressed(attacker)
           THEN /\ UNCHANGED <<grudge, grudgeTime, quietSteps>>
                /\ lastAttack' = Found(target, attacker, qualifies,
                                       "suppressed")
           ELSE IF ~qualifies
           THEN /\ UNCHANGED <<grudge, grudgeTime, quietSteps>>
                /\ lastAttack' = Found(target, attacker, qualifies, "gated")
           ELSE /\ grudge' = [grudge EXCEPT ![attacker] = target]
                /\ grudgeTime' = GrudgeCooldown
                /\ quietSteps' = 0
                /\ lastAttack' = Found(target, attacker, qualifies, "raised")
      /\ UNCHANGED <<shipGov, shipAlive, shipPresent, shipDisabled>>
      /\ Frame("grudge")

\* A counter that runs down two at a time.
Ticked_Twice(time) == IF time > 1 THEN time - 2 ELSE 0

\* if(grudgeTime) --grudgeTime;
Ticked(time) == IF time # 0 THEN time - 1 ELSE 0

\* CalculateStep, before the DoCollisions loop of the next step:
\* if(grudgeTime) --grudgeTime;
G_Tick ==
    /\ grudgeTime # 0 \/ lastAttack # NoAttack
    /\ grudgeTime' = Ticked(grudgeTime)
    /\ quietSteps' = IF quietSteps < GrudgeCooldown THEN quietSteps + 1
                     ELSE quietSteps
    /\ lastAttack' = NoAttack
    /\ UNCHANGED <<grudge, shipGov, shipAlive, shipPresent, shipDisabled>>
    /\ Frame("grudge")

\* CalculateStep while the player has no system:
\* if(!player.GetSystem()) return; comes before the decrement and before
\* every DoCollisions call.
G_NoSystem ==
    /\ lastAttack' = NoSystemStep
    /\ UNCHANGED <<grudge, grudgeTime, shipGov, shipAlive, shipPresent,
                   shipDisabled, quietSteps>>
    /\ Frame("grudge")

\* A ship of some government is placed in the player's system (EnterSystem,
\* SpawnFleets, SpawnPersons).
G_Arrive ==
    \E ship \in GrudgeShips, gov \in Governments :
      /\ lastAttack = NoAttack
      /\ shipGov[ship] = "none"
      /\ \A other \in GrudgeShips : other < ship => shipGov[other] # "none"
      /\ shipGov' = [shipGov EXCEPT ![ship] = gov]
      /\ shipAlive' = shipAlive \cup {ship}
      /\ shipPresent' = shipPresent \cup {ship}
      /\ lastAttack' = NoAttack
      /\ UNCHANGED <<grudge, grudgeTime, shipDisabled, quietSteps>>
      /\ Frame("grudge")

\* What a step may do to a ship: disable or repair it, take it out of the
\* system or back, or destroy it (Prune(ships) then frees the object).
\* Damage is dealt in the player's system only (FillCollisionSets), and a
\* disabled ship does not travel.
\* The hits of one step are all resolved (G_DoGrudge) before the next step
\* moves a ship.
G_ShipChange ==
    \E ship \in shipAlive, change \in {"disable", "repair", "leave", "return",
                                       "destroy"} :
      /\ shipDisabled' = IF change = "disable" THEN shipDisabled \cup {ship}
                         ELSE IF change \in {"repair", "destroy"}
                         THEN shipDisabled \ {ship}
                         ELSE shipDisabled
      /\ shipPresent' = IF change = "return" THEN shipPresent \cup {ship}
                        ELSE IF change \in {"leave", "destroy"}
                        THEN shipPresent \ {ship}
                        ELSE shipPresent
      /\ shipAlive' = IF change = "destroy" THEN shipAlive \ {ship}
                      ELSE shipAlive
      /\ lastAttack = NoAttack
      /\ change = "disable" => ship \in shipPresent
      /\ change = "leave" => ship \notin shipDisabled
      /\ <<shipDisabled', shipPresent', shipAlive'>>
           # <<shipDisabled, shipPresent, shipAlive>>
      /\ lastAttack' = NoAttack
      /\ UNCHANGED <<grudge, grudgeTime, shipGov, quietSteps>>
      /\ Frame("grudge")

\* EnterSystem: grudge.clear(); the ships of the old system are left behind.
G_EnterSystem ==
    /\ lastAttack = NoAttack
    /\ grudge' = [g \in Governments |-> NoEntry]
    /\ shipPresent' = {}
    /\ lastAttack' = NoAttack
    /\ UNCHANGED <<grudgeTime, shipGov, shipAlive, shipDisabled, quietSteps>>
    /\ Frame("grudge")

GrudgeNext ==
    G_Arrive \/ G_DoGrudge \/ G_Tick \/ G_NoSystem \/ G_ShipChange
    \/ G_EnterSystem

GrudgeSpec == Init /\ [][GrudgeNext]_vars

\* ======================================================== fleet placement
\* A throttle with the two strengths the wrong way round.
Throttled_Swapped(ally, enemy) == enemy # 0 /\ enemy > 2 * ally

\* SpawnFleets: if(enemyStrength && ai.AllyStrength(gov) > 2 * enemyStrength)
\* continue;
Throttled(ally, enemy) == enemy # 0 /\ ally > 2 * enemy

\* ai.Step: the strengths of the government's allies and enemies in the
\* system are counted afresh.
P_AiStep ==
    /\ \E ally \in 0..MaxStrength, enemy \in 0..MaxStrength :
         /\ allyStrength' = ally
         /\ enemyStrength' = enemy
    /\ lastFleet' = [by |-> "none", hasGov |-> FALSE, placed |-> FALSE]
    /\ Frame("fleet")

\* SpawnFleets, one fleet of the system whose period came up: skipped if it
\* has no government or if it is throttled, otherwise
\* fleet.Get()->Enter(*player.GetSystem(), newShips).
P_SpawnFleet ==
    /\ \E hasGov \in BOOLEAN :
         lastFleet' = [by |-> "SpawnFleets", hasGov |-> hasGov,
                       placed |-> hasGov /\ ~Throttled(allyStrength,
                                                      enemyStrength)]
    /\ UNCHANGED <<allyStrength, enemyStrength>>
    /\ Frame("fleet")

\* EnterSystem, one fleet of the system whose draw came up: skipped only if
\* it has no government, otherwise fleet.Get()->Place(*system, ships).
P_EnterFleet ==
    /\ \E hasGov \in BOOLEAN :
         lastFleet' = [by |-> "EnterSystem", hasGov |-> hasGov,
                       placed |-> hasGov]
    /\ UNCHANGED <<allyStrength, enemyStrength>>
    /\ Frame("fleet")

\* EnterSystem: raidFleet->Place(*system, ships) when the raid fleet's
\* government is the player's enemy and the draw succeeds.
P_EnterRaid ==
    /\ \E draw_ \in BOOLEAN :
         lastFleet' = [by |-> "raid", hasGov |-> TRUE, placed |-> draw_]
    /\ UNCHANGED <<allyStrength, enemyStrength>>
    /\ Frame("fleet")

FleetNext == P_AiStep \/ P_SpawnFleet \/ P_EnterFleet \/ P_EnterRaid

FleetSpec == Init /\ [][FleetNext]_vars

\* ------------------------------------------- detonations, absent references
\* Only the ships next to the shipCollisions loop, without the loop over
\* cloakedCollisions.Circle that follows it.
InCircle_VisibleOnly(in) == {s \in BlastShips : in.status[s] = "visible"}

\* The bodies of shipCollisions.Circle(hitPos, blastRadius) and of
\* cloakedCollisions.Circle(hitPos, blastRadius).
InCircle(in) == {s \in BlastShips : in.status[s] \in {"visible", "cloaked"}}

\* The skip test reaches projectile.GetGovernment()->IsEnemy(...) for a
\* body that is not the target of a safe projectile, government or not.
NullGovernmentUsed(in) ==
    in.blast /\ in.safe /\ ~in.hasGov /\ \E s \in InCircle(in) : s # in.target

\* Every body in the circle, as if the weapon had a blast radius.
HitDamaged_Circle(in) == InCircle(in)

\* else if(hit) hit->TakeDamage(projectile);
HitDamaged(in) == IF in.hit # 0 THEN {in.hit} ELSE {}

\* The ships TakeDamage is called on.  In the blast loops:
\* if(isSafe && projectile.Target() != body
\*     && !projectile.GetGovernment()->IsEnemy(body->GetGovernment()))
\*     continue;
Damaged(in) ==
    LET skipped ==
          IF in.safe
          THEN {s \in InCircle(in) : s # in.target /\ s \notin in.enemy}
          ELSE {}
    IN IF in.blast THEN InCircle(in) \ skipped ELSE HitDamaged(in)

\* What resolving the detonation can leave behind.  Calling IsEnemy through
\* a null government is undefined: the step may stop at any body of the
\* loops, or the call may answer anything for each body.
\* int eventType = ship->TakeDamage(...); if(eventType)
\*     eventQueue.emplace_back(...): only the ships in.reports, those whose
\* TakeDamage returns a nonzero event type, get an event.
Outcomes(in) ==
    IF NullGovernmentUsed(in)
    THEN {[done |-> TRUE, damaged |-> d, events |-> d \cap in.reports] :
             d \in SUBSET InCircle(in)}
    ELSE {[done |-> TRUE, damaged |-> Damaged(in),
           events |-> Damaged(in) \cap in.reports]}

\* DoCollisions, from projectile.Explode to the end of the damage branch.
\* Inputs: the detonations the code can be handed.  A projectile without
\* government gets closestHit = 0. and no collision test, so it has no hit
\* ship and nobody is its government's enemy; a hit ship comes from
\* shipCollisions.Line or is the phasing projectile's visible target.
B_Detonate ==
    /\ ~blastOut.done
    /\ \E in \in
          {in \in [hasGov : BOOLEAN, safe : BOOLEAN, blast : BOOLEAN,
                   hit : 0..MaxBlastShips, target : 0..MaxBlastShips,
                   status : [BlastShips ->
                               {"visible", "cloaked", "landing", "far"}],
                   enemy : SUBSET BlastShips, reports : SUBSET BlastShips] :
              /\ ~in.hasGov => in.hit = 0 /\ in.enemy = {}
              /\ in.hit # 0 => in.status[in.hit] = "visible"} :
         /\ blastIn' = in
         /\ blastOut' \in Outcomes(in)
         /\ nullUse' = IF NullGovernmentUsed(in) THEN "DoCollisions"
                       ELSE "none"
    /\ Frame("blast")

\* CalculateStep: for(Projectile &projectile : projectiles)
\*     DoCollisions(projectile); goes on to the next projectile.
B_NextProjectile ==
    /\ blastOut.done
    /\ blastIn' = NoBlast
    /\ blastOut' = NoOutcome
    /\ nullUse' = "none"
    /\ Frame("blast")

\* Step, the escort display: for(const auto &it : ships)
\*     if(it->GetGovernment()->IsPlayer() || ...), for one ship.
N_StepEscort ==
    /\ \E hasGov \in BOOLEAN :
         nullUse' = IF hasGov THEN "none" ELSE "Step escorts"
    /\ blastIn' = NoBlast
    /\ blastOut' = NoOutcome
    /\ Frame("blast")

\* Step, the status overlays, for one ship:
\*     if(!it->GetGovernment() || ...) continue;
\* comes before it->GetGovernment()->IsEnemy().
N_StepStatus ==
    /\ nullUse' = "none"
    /\ blastIn' = NoBlast
    /\ blastOut' = NoOutcome
    /\ Frame("blast")

\* RadarType, called by Step for the flagship's target and by FillRadar:
\* a blinking mission target and a disabled or overheated ship return
\* before ship.GetGovernment()->IsPlayer() is evaluated.
N_RadarType ==
    /\ \E hasGov \in BOOLEAN, blinks \in BOOLEAN, inactive \in BOOLEAN :
         nullUse' = IF blinks \/ inactive \/ hasGov THEN "none"
                    ELSE "RadarType"
    /\ blastIn' = NoBlast
    /\ blastOut' = NoOutcome
    /\ Frame("blast")

\* Place, one ship: isHere && !ship->IsDisabled()
\*     && (player.GetPlanet()->CanLand(*ship) || ...) comes before
\* if(player.GetPlanet()).
N_Place ==
    /\ \E isHere \in BOOLEAN, disabled \in BOOLEAN, hasPlanet \in BOOLEAN :
         nullUse' = IF isHere /\ ~disabled /\ ~hasPlanet THEN "Place"
                    ELSE "none"
    /\ blastIn' = NoBlast
    /\ blastOut' = NoOutcome
    /\ Frame("blast")

\* Step, the flagship's target stellar object: the navigation mode tests
\* object->GetPlanet() first, the target marker calls
\* object->GetPlanet()->CanLand() regardless.
N_StepStellar ==
    /\ \E hasPlanet \in BOOLEAN :
         nullUse' = IF hasPlanet THEN "none" ELSE "Step stellar"
    /\ blastIn' = NoBlast
    /\ blastOut' = NoOutcome
    /\ Frame("blast")

BlastNext ==
    \/ B_Detonate
    \/ B_NextProjectile
    \/ N_StepEscort
    \/ N_StepStatus
    \/ N_RadarType
    \/ N_Place
    \/ N_StepStellar

BlastSpec == Init /\ [][BlastNext]_vars

\* ------------------------------------------------ the stages of one step
\* One entry of stageLog.
Stage(name, kind) == [stage |-> name, kind |-> kind]

\* A stage running again right after itself is logged once.
Logged(log, entry) ==
    IF log # <<>> /\ log[Len(log)] = entry THEN log ELSE Append(log, entry)

\* The kinds in the order CalculateStep moves and prunes them, and the
\* statement that follows the Prune of each.
MoverKinds == <<"ships", "flotsam", "projectiles", "visuals">>

AfterPrune(kind) ==
    CASE kind = "ships" -> "flotsam"
      [] kind = "flotsam" -> "projectiles"
      [] kind = "projectiles" -> "visuals"
      [] kind = "visuals" -> "spawn"

\* SendHails() ahead of SpawnFleets() and SpawnPersons().
SpawnStages_HailFirst == <<Stage("hail", ""), Stage("spawn", "")>>

\* CalculateStep: SpawnFleets(); SpawnPersons(); SendHails();
SpawnStages == <<Stage("spawn", ""), Stage("hail", "")>>

\* ThreadEntryPoint leaves the wait and calls CalculateStep, which clears
\* the draw list and returns at once if the player has no system; otherwise
\* ai.Step, DeployDefense, and the MoveShip loop begins.
T_Start ==
    /\ stagePc = "wait"
    /\ stageLog' = <<>>
    /\ \E hasSystem \in BOOLEAN, count \in 0..MaxStageItems :
         /\ ~hasSystem => count = 0
         /\ stagePc' = IF hasSystem THEN "ships" ELSE "publish"
         /\ stageLeft' = count
    /\ Frame("stage")

\* One call of a Move loop: MoveShip(it), it->Move(newVisuals),
\* projectile.Move(newVisuals, newProjectiles), visual.Move().
T_Move ==
    /\ \E i \in 1..Len(MoverKinds) : stagePc = MoverKinds[i]
    /\ stageLeft > 0
    /\ stageLeft' = stageLeft - 1
    /\ stageLog' = Logged(stageLog, Stage("move", stagePc))
    /\ UNCHANGED stagePc
    /\ Frame("stage")

\* The Prune that follows a Move loop; the next loop has some number of
\* entities to go through.
T_Prune ==
    /\ \E i \in 1..Len(MoverKinds) : stagePc = MoverKinds[i]
    /\ stageLeft = 0
    /\ stageLog' = Logged(stageLog, Stage("prune", stagePc))
    /\ stagePc' = AfterPrune(stagePc)
    /\ \E count \in 0..MaxStageItems :
         /\ AfterPrune(stagePc) = "spawn" => count = 0
         /\ stageLeft' = count
    /\ Frame("stage")

\* SpawnFleets(); SpawnPersons(); SendHails(); HandleMouseClicks();
T_Spawn ==
    /\ stagePc = "spawn"
    /\ stageLog' = Logged(Logged(stageLog, SpawnStages[1]), SpawnStages[2])
    /\ stagePc' = "merge"
    /\ UNCHANGED stageLeft
    /\ Frame("stage")

\* The splices and Appends, the grudgeTime countdown, FillCollisionSets();
\* the DoCollisions loop has the projectiles to go through.
T_Merge ==
    /\ stagePc = "merge"
    /\ stageLog' = Logged(stageLog, Stage("merge", ""))
    /\ stagePc' = "collide"
    /\ \E count \in 0..MaxStageItems : stageLeft' = count
    /\ Frame("stage")

\* DoCollisions(projectile): it ends with if(hit) DoGrudge(hit, ..).
T_DoCollisions ==
    /\ stagePc = "collide" /\ stageLeft > 0
    /\ stageLeft' = stageLeft - 1
    /\ \E hit \in BOOLEAN :
         stageLog' =
           IF hit
           THEN Logged(Logged(stageLog, Stage("collide", "")),
                       Stage("grudge", ""))
           ELSE Logged(stageLog, Stage("collide", ""))
    /\ UNCHANGED stagePc
    /\ Frame("stage")

\* hasAntiMissile.clear(); the DoCollection and DoScanning loops.
T_Collect ==
    /\ stagePc = "collide" /\ stageLeft = 0
    /\ stageLog' = Logged(stageLog, Stage("collect", ""))
    /\ stagePc' = "draw"
    /\ UNCHANGED stageLeft
    /\ Frame("stage")

\* SetCenter, FillRadar() and the draw loops.
T_Draw ==
    /\ stagePc = "draw"
    /\ stageLog' = Logged(stageLog, Stage("draw", ""))
    /\ stagePc' = "publish"
    /\ UNCHANGED stageLeft
    /\ Frame("stage")

\* ThreadEntryPoint after CalculateStep returned:
\* calcTickTock = drawTickTock; condition.notify_one();
T_Publish ==
    /\ stagePc = "publish"
    /\ stageLog' = Logged(stageLog, Stage("publish", ""))
    /\ stagePc' = "wait"
    /\ UNCHANGED stageLeft
    /\ Frame("stage")

StageNext ==
    \/ T_Start \/ T_Move \/ T_Prune \/ T_Spawn \/ T_Merge
    \/ T_DoCollisions \/ T_Collect \/ T_Draw \/ T_Publish

StageSpec == Init /\ [][StageNext]_vars

\* ------------------------------------------------------ the MoveShip loop
\* mvIdx is 0 between two steps, the position in the ship list during the
\* MoveShip loop, and -1 after Prune(ships) within a step.

\* A MoveShip without the return for a ship that just died.
AfterMove_NoBail(dies, here, ready) ==
    {"board"} \cup (IF here THEN {"launch", "fire"} ELSE {})
              \cup (IF here /\ ready THEN {"ready"} ELSE {})

\* MoveShip after ship->Move: return if the ship ShouldBeRemoved;
\* ship->Board(autoPlunder); return if the ship is not in the player's
\* system; ship->Launch(newShips); if(ship->Fire(newProjectiles,
\* newVisuals)) hasAntiMissile.push_back(ship.get()).
AfterMove(dies, here, ready) ==
    IF dies THEN {}
    ELSE {"board"} \cup (IF here THEN {"launch", "fire"} ELSE {})
                   \cup (IF here /\ ready THEN {"ready"} ELSE {})

\* CalculateStep reaches the MoveShip loop.
M_Begin ==
    /\ mvIdx = 0
    /\ mvIdx' = 1
    /\ mvDone' = [ship \in 1..MaxMoveShips |-> {}]
    /\ UNCHANGED <<mvShips, mvRemoved, mvReady, mvDestroyed, mvIntercept>>
    /\ Frame("move")

\* MoveShip(mvShips[mvIdx]): Move may leave the ship marked for removal
\* (dies); then eventQueue.emplace_back(nullptr, ship, ShipEvent::DESTROY)
\* and return.
M_MoveShip ==
    /\ mvIdx >= 1 /\ mvIdx <= Len(mvShips)
    /\ mvIdx' = mvIdx + 1
    /\ LET ship == mvShips[mvIdx] IN
       \E dies \in BOOLEAN, here \in BOOLEAN, ready \in BOOLEAN :
         LET marked == dies \/ ship \in mvRemoved IN
         /\ mvRemoved' = IF marked THEN mvRemoved \cup {ship} ELSE mvRemoved
         /\ mvDestroyed' = IF marked
                             THEN [mvDestroyed EXCEPT ![ship] = @ + 1]
                             ELSE mvDestroyed
         /\ mvDone' = [mvDone EXCEPT
                         ![ship] = @ \cup AfterMove(marked, here, ready)]
         /\ mvReady' = IF "ready" \in AfterMove(marked, here, ready)
                         THEN Append(mvReady, ship) ELSE mvReady
    /\ UNCHANGED <<mvShips, mvIntercept>>
    /\ Frame("move")

\* CalculateStep after the loop: Prune(ships).
M_Prune ==
    /\ mvIdx > Len(mvShips)
    /\ mvIdx' = -1
    /\ mvShips' = PruneList(mvShips, mvRemoved)
    /\ mvRemoved' = mvRemoved \ Gone(mvShips, PruneList(mvShips, mvRemoved))
    /\ UNCHANGED <<mvReady, mvDestroyed, mvDone, mvIntercept>>
    /\ Frame("move")

\* A loop without the break: every candidate fires.
Attempts_NoBreak(eligible, succeeds) ==
    SelectSeq(mvReady, LAMBDA ship : ship \in eligible)

\* The ships that call FireAntiMissile.  tries: the ships of
\* hasAntiMissile the loop lets try, for(Ship *ship : hasAntiMissile)
\*     if(ship == projectile.Target() || gov->IsEnemy(ship->GetGovernment()))
\* and of these the ones up to the first whose FireAntiMissile returns
\* true, where projectile.Kill() is followed by break.
Attempts(eligible, succeeds) ==
    LET tries == SelectSeq(mvReady, LAMBDA ship : ship \in eligible)
        first == IF \E i \in 1..Len(tries) : tries[i] \in succeeds
                 THEN CHOOSE i \in 1..Len(tries) :
                        /\ tries[i] \in succeeds
                        /\ \A j \in 1..(i - 1) : tries[j] \notin succeeds
                 ELSE 0
    IN IF first = 0 THEN tries ELSE SubSeq(tries, 1, first)

\* DoCollisions for one projectile of the step, the branch
\* else if(projectile.MissileStrength()): reached only if
\* closestHit < 1. failed, which a projectile without government never
\* does.
M_DoCollisions ==
    /\ mvIdx = -1
    /\ ~mvIntercept.done
    /\ \E hasGov \in BOOLEAN, missile \in BOOLEAN, collided \in BOOLEAN,
          eligible \in SUBSET (1..MaxMoveShips),
          succeeds \in SUBSET (1..MaxMoveShips) :
         LET tries == IF ~collided /\ missile
                        THEN Attempts(eligible, succeeds) ELSE <<>>
         IN
         /\ ~hasGov => collided /\ eligible = {}
         /\ mvIntercept' =
              [done |-> TRUE, missile |-> missile, collided |-> collided,
               eligible |-> eligible, succeeds |-> succeeds,
               attempts |-> tries,
               killed |-> \E i \in 1..Len(tries) : tries[i] \in succeeds]
    /\ UNCHANGED <<mvShips, mvRemoved, mvIdx, mvReady, mvDestroyed, mvDone>>
    /\ Frame("move")

\* The rest of the step, through hasAntiMissile.clear().
M_EndCollisions ==
    /\ mvIdx = -1
    /\ mvIdx' = 0
    /\ mvReady' = <<>>
    /\ mvIntercept' = [done |-> FALSE, missile |-> FALSE, collided |-> FALSE,
                        eligible |-> {}, succeeds |-> {}, attempts |-> <<>>,
                        killed |-> FALSE]
    /\ UNCHANGED <<mvShips, mvRemoved, mvDestroyed, mvDone>>
    /\ Frame("move")

MoveNext ==
    M_Begin \/ M_MoveShip \/ M_Prune \/ M_DoCollisions \/ M_EndCollisions

MoveSpec == Init /\ [][MoveNext]_vars

\* ------------------------------------------------------------------------
\* DoCollisions, the collision test: what one projectile hits.

\* FillCollisionSets with every ship of the system in shipCollisions,
\* cloaked or not.
ShipCollisions_Cloaked(in) == {s \in BlastShips : in.ships[s].here}

\* FillCollisionSets: if(it->GetSystem() == player.GetSystem()
\*     && it->Zoom() == 1.) { if(it->Cloaking() < 1.)
\*     shipCollisions.Add(*it); else cloakedCollisions.Add(*it); }
\* The ships in shipCollisions; the other ships that are here are in
\* cloakedCollisions.
ShipCollisions(in) ==
    {s \in BlastShips : in.ships[s].here /\ ~in.ships[s].cloaked}

\* A phasing projectile that goes on to the test against every ship on
\* its path.
PhasingHit_AnyShip(in) ==
    IF \E s \in ShipCollisions(in) : in.ships[s].place = "onPath"
    THEN CHOOSE s \in ShipCollisions(in) : in.ships[s].place = "onPath"
    ELSE 0

\* The phasing branch: target = projectile.TargetPtr(); if(target
\*     && target->GetSystem() == player.GetSystem() && target->Zoom() == 1.
\*     && target->Cloaking() < 1.) and the target's mask is met
\*     (range < 1.): hit = target.  0 for no hit.
PhasingHit(in) ==
    IF /\ in.target \in BlastShips
       /\ in.ships[in.target].here
       /\ ~in.ships[in.target].cloaked
       /\ in.ships[in.target].place = "onPath"
    THEN in.target
    ELSE 0

\* The collision test of DoCollisions: the hit ship (0 for none) and what
\* brought closestHit below 1., "none" when nothing did.
DirectHits(in) ==
    LET \* if(triggerRadius) for(body : shipCollisions.Circle(Position(),
        \*     triggerRadius)) if(body == projectile.Target()
        \*     || gov->IsEnemy(body->GetGovernment()))
        \*     { closestHit = 0.; break; }
        triggered ==
            /\ in.trigger
            /\ \E s \in ShipCollisions(in) :
                 /\ in.ships[s].place # "far"
                 /\ s = in.target \/ in.ships[s].enemy
        \* shipCollisions.Line(projectile, &closestHit): one of the bodies
        \* of the set on the projectile's path, or none.
        lineHits ==
            {0} \cup {s \in ShipCollisions(in) : in.ships[s].place = "onPath"}
        \* if(!projectile.GetWeapon().IsPhasing()) { ... if(closestAsteroid
        \*     < closestHit) { closestHit = closestAsteroid; hit = nullptr; } }
        \* after shipCollisions.Line returned ship (0 for none).
        afterAsteroids(ship) ==
            IF ~in.phasing /\ in.asteroid
            THEN [hit |-> 0, by |-> "asteroid"]
            ELSE IF ship # 0 THEN [hit |-> ship, by |-> "line"]
            ELSE [hit |-> 0, by |-> "none"]
    IN  IF ~in.hasGov THEN {[hit |-> 0, by |-> "explosion"]}
        ELSE IF in.phasing /\ in.target # 0
        THEN {IF PhasingHit(in) # 0
              THEN [hit |-> PhasingHit(in), by |-> "target"]
              ELSE [hit |-> 0, by |-> "none"]}
        ELSE IF triggered THEN {[hit |-> 0, by |-> "trigger"]}
        ELSE {afterAsteroids(ship) : ship \in lineHits}

\* The detonation the damage branch is handed once closestHit < 1.: the
\* bodies of the two Circle(hitPos, blastRadius) queries are the ships of
\* the collision sets that are not far.
Detonation(in, hit) ==
    [hasGov |-> in.hasGov, safe |-> in.safe, blast |-> in.blast,
     hit |-> hit,
     target |-> IF in.target \in BlastShips THEN in.target ELSE 0,
     status |-> [s \in BlastShips |->
                   IF in.ships[s].place = "far" THEN "far"
                   ELSE IF s \in ShipCollisions(in) THEN "visible"
                   ELSE IF in.ships[s].here THEN "cloaked"
                   ELSE "landing"],
     enemy |-> {s \in BlastShips : in.ships[s].enemy},
     reports |-> {}]

\* A DoCollisions that hands every damaged ship to DoGrudge.
Grudged_Damaged(direct, damaged) == damaged

\* The ships DoGrudge is called for: inside if(closestHit < 1.), after the
\* damage is dealt, if(hit) DoGrudge(hit, projectile.GetGovernment());
Grudged(direct, damaged) ==
    IF direct.by # "none" /\ direct.hit # 0 THEN {direct.hit} ELSE {}

\* DoCollisions for one projectile: the collision test, the damage it deals
\* and the call of DoGrudge.
\* Inputs: the projectiles and surroundings the collision test can be
\* handed.  A ship is here when it is in the player's system at
\* Zoom() == 1., cloaked when Cloaking() is 1, on the projectile's path,
\* merely near it (inside the trigger radius and the blast radius), or far
\* from it.  A projectile
\* without government is a ship explosion: nobody is the enemy of its
\* government.  target: 0 for none, a ship, or MaxBlastShips + 1 for a
\* target whose TargetPtr() is empty.  asteroid: an asteroid on the path
\* nearer than any ship hit.
H_DoCollisions ==
    /\ ~hitOut.done
    /\ \E in \in
          {in \in [hasGov : BOOLEAN, phasing : BOOLEAN,
                   target : 0..(MaxBlastShips + 1), trigger : BOOLEAN,
                   asteroid : BOOLEAN, blast : BOOLEAN, safe : BOOLEAN,
                   ships : [BlastShips ->
                              [here : BOOLEAN, cloaked : BOOLEAN,
                               place : {"onPath", "near", "far"},
                               enemy : BOOLEAN]]] :
              /\ in.safe => in.blast
              /\ ~in.hasGov =>
                    /\ ~in.phasing /\ ~in.trigger /\ ~in.asteroid
                    /\ \A s \in BlastShips : ~in.ships[s].enemy} :
       \E direct \in DirectHits(in) :
         /\ hitIn' = in
         /\ \E damaged \in
                 IF direct.by = "none" THEN {{}}
                 ELSE {o.damaged : o \in Outcomes(Detonation(in,
                         direct.hit))} :
              hitOut' = [done |-> TRUE, hit |-> direct.hit,
                         by |-> direct.by, damaged |-> damaged,
                         grudge |-> Grudged(direct, damaged)]
    /\ Frame("hit")

\* CalculateStep: for(Projectile &projectile : projectiles)
\*     DoCollisions(projectile); goes on to the next projectile.
H_NextProjectile ==
    /\ hitOut.done
    /\ hitIn' = NoHitIn
    /\ hitOut' = NoHitOut
    /\ Frame("hit")

HitNext ==
    \/ H_DoCollisions
    \/ H_NextProjectile

HitSpec == Init /\ [][HitNext]_vars


\* ------------------------------------------------------------------------
\* DoCollisions, closestHit: where on its path the projectile detonates.

\* A trigger radius that any ship inside it sets off.
Triggers_Any(bodies) == bodies # {}

\* for(body : shipCollisions.Circle(projectile.Position(), triggerRadius))
\*     if(body == projectile.Target()
\*         || gov->IsEnemy(body->GetGovernment())) { closestHit = 0.; break; }
\* for the kinds of body in the circle.
Triggers(bodies) == bodies \cap {"target", "enemy"} # {}

\* An asteroid that shields the ship it is level with.
Shielded_Level(closestAsteroid, closestHit) == closestAsteroid <= closestHit

\* if(closestAsteroid < closestHit) { closestHit = closestAsteroid;
\*     hit = nullptr; }
Shielded(closestAsteroid, closestHit) == closestAsteroid < closestHit

\* DoCollisions for one projectile, up to if(closestHit < 1.).
\* Inputs: target is projectile.Target() being set; targetRange the range
\* the target's mask gives a phasing projectile, MaxFraction when the
\* target is gone, elsewhere, landing, cloaked or missed; radius is
\* TriggerRadius() being nonzero; inCircle the kinds of body
\* shipCollisions.Circle(Position(), triggerRadius) returns: the target,
\* enemies of the projectile's government, others; line the closestHit
\* shipCollisions.Line leaves, MaxFraction when it returns no ship;
\* asteroid what asteroids.Collide returns.
I_DoCollisions ==
    /\ ~impactOut.done
    /\ \E in \in
          {in \in [hasGov : BOOLEAN, phasing : BOOLEAN, target : BOOLEAN,
                   targetRange : 0..MaxFraction, radius : BOOLEAN,
                   inCircle : SUBSET {"target", "enemy", "other"},
                   line : 0..MaxFraction, asteroid : 0..MaxFraction] :
              /\ ~in.target => "target" \notin in.inCircle
              /\ ~in.hasGov => "enemy" \notin in.inCircle} :
         LET triggered == in.radius /\ Triggers(in.inCircle)
             \* if(closestHit > 0.) { ship = shipCollisions.Line(projectile,
             \*     &closestHit); if(ship) hit = ship->shared_from_this(); }
             afterLine ==
                 IF triggered THEN [closestHit |-> 0, hit |-> "none"]
                 ELSE [closestHit |-> in.line,
                       hit |-> IF in.line < MaxFraction THEN "ship"
                               ELSE "none"]
             result ==
                 \* if(!gov) closestHit = 0.;
                 IF ~in.hasGov
                 THEN [closestHit |-> 0, hit |-> "none", triggered |-> FALSE]
                 \* else if(IsPhasing() && projectile.Target()) { ...
                 \*     if(range < 1.) { closestHit = range; hit = target; } }
                 ELSE IF in.phasing /\ in.target
                 THEN [closestHit |-> in.targetRange,
                       hit |-> IF in.targetRange < MaxFraction THEN "target"
                               ELSE "none",
                       triggered |-> FALSE]
                 \* if(!projectile.GetWeapon().IsPhasing()) { ... }
                 ELSE IF ~in.phasing
                         /\ Shielded(in.asteroid, afterLine.closestHit)
                 THEN [closestHit |-> in.asteroid, hit |-> "none",
                       triggered |-> triggered]
                 ELSE [closestHit |-> afterLine.closestHit,
                       hit |-> afterLine.hit, triggered |-> triggered]
         IN /\ impactIn' = in
            /\ impactOut' = [done |-> TRUE, closestHit |-> result.closestHit,
                             hit |-> result.hit,
                             triggered |-> result.triggered]
    /\ Frame("impact")

\* CalculateStep: for(Projectile &projectile : projectiles)
\*     DoCollisions(projectile); the next projectile starts from
\* closestHit = 1. and an empty hit.
I_NextProjectile ==
    /\ impactOut.done
    /\ impactOut' = [done |-> FALSE, closestHit |-> MaxFraction,
                     hit |-> "none", triggered |-> FALSE]
    /\ impactIn' = [hasGov |-> TRUE, phasing |-> FALSE, target |-> FALSE,
                    targetRange |-> MaxFraction, radius |-> FALSE,
                    inCircle |-> {}, line |-> MaxFraction,
                    asteroid |-> MaxFraction]
    /\ Frame("impact")

ImpactNext == I_DoCollisions \/ I_NextProjectile

ImpactSpec == Init /\ [][ImpactNext]_vars

\* ------------------------------------------------------------------------
\* SendHails: at random intervals one of the ships sends the player a hail.

\* A test that lets disabled ships hail.
CanHail_Disabled(source) ==
    /\ source.gov \notin {"none", "player"}
    /\ source.here
    /\ source.crew /\ ~source.cloaked
    /\ source.hail

\* The returns of lines 1393-1409: if(!government || government->IsPlayer());
\* if(source->GetSystem() != player.GetSystem()); if(source->IsDisabled()
\*     || !source->Crew() || source->Cloaking() >= 1.);
\* if(message.empty()).
CanHail(source) ==
    /\ source.gov \notin {"none", "player"}
    /\ source.here
    /\ ~source.disabled /\ source.crew /\ ~source.cloaked
    /\ source.hail

\* SendHails, once in a calculation.  Inputs: due is Random::Int(600)
\* giving 0, dead is player.IsDead(), ships the length of the ship list,
\* i the draw Random::Int(ships.size()), and source the i-th ship of the
\* list: its government (none, the player's, another), whether it is in
\* the player's system, disabled, has crew, is at Cloaking() >= 1., and
\* whether GetHail() gives a message that is not empty.
L_SendHails ==
    /\ ~hailOut.done
    /\ \E in \in
          {in \in [due : BOOLEAN, dead : BOOLEAN, ships : 0..MaxHailShips,
                   i : 0..(MaxHailShips - 1),
                   source : [gov : {"none", "player", "other"},
                             here : BOOLEAN, disabled : BOOLEAN,
                             crew : BOOLEAN, cloaked : BOOLEAN,
                             hail : BOOLEAN]] :
              /\ in.ships = 0 => in.i = 0
              /\ in.ships > 0 => in.i < in.ships} :
         /\ hailIn' = in
         /\ hailOut' =
              [done |-> TRUE,
               \* if(Random::Int(600) || player.IsDead() || ships.empty())
               \*     return; ... Messages::Add(tag + message);
               messages |-> IF in.due /\ ~in.dead /\ in.ships # 0
                                 /\ CanHail(in.source)
                            THEN <<in.i + 1>> ELSE <<>>,
               source |-> in.source]
    /\ Frame("hail")

\* CalculateStep: SendHails(); is called again in the next calculation.
L_NextStep ==
    /\ hailOut.done
    /\ hailIn' = NoHail
    /\ hailOut' = [done |-> FALSE, messages |-> <<>>,
                   source |-> NoHail.source]
    /\ Frame("hail")

HailNext == L_SendHails \/ L_NextStep

HailSpec == Init /\ [][HailNext]_vars

\* ------------------------------------------------------------------------
\* DoGrudge past the cooldown and the test of the registered ship: the
\* gates, the strengths and the request.

\* for(ship : ships) if(ship->GetGovernment() == attacker
\*     && ship->GetTargetShip() == target) attackerStrength += ...;
\* over the first n ships of the list.
RECURSIVE AttackerStrength(_, _)
AttackerStrength(in, n) ==
    IF n = 0 THEN 0
    ELSE AttackerStrength(in, n - 1)
         + (IF in.ships[n].sameGov /\ in.ships[n].targets
            THEN in.ships[n].strength ELSE 0)

\* A victim that asks for help against attackers of its own strength.
Outmatched_OrEqual(in) ==
    AttackerStrength(in, MaxAttackers) >= in.targetStrength

\* if(attackerStrength <= targetStrength) return;
Outmatched(in) == AttackerStrength(in, MaxAttackers) > in.targetStrength

\* DoGrudge, lines 1891-1926, for one hit: the five returns of lines
\* 1893-1903 (gates), the strength comparison and the random draw, then
\* grudge[attacker] = target; grudgeTime = 120; once no return was taken.
\* Inputs: the hits DoGrudge can be handed.  language: the Language() of
\* the victim's government is empty ("none"), or the player's condition
\* "language: ..." for it is set ("known") or not ("unknown"); strength
\* is (Shields() + Hull()) * Cost(); lucky is the outcome of
\* Random::Real() * 10. > ratio.
R_DoGrudge ==
    /\ ~reqOut.done
    /\ \E in \in
          [targetPlayer : BOOLEAN, attackerEnemy : BOOLEAN,
           targetEnemy : BOOLEAN, mute : BOOLEAN,
           language : {"none", "known", "unknown"},
           targetStrength : 0..MaxHealth, lucky : BOOLEAN,
           ships : [1..MaxAttackers ->
                      [sameGov : BOOLEAN, targets : BOOLEAN,
                       strength : 0..MaxHealth]]] :
         LET gates == /\ ~in.targetPlayer
                      /\ in.attackerEnemy
                      /\ ~in.targetEnemy
                      /\ ~in.mute
                      /\ in.language # "unknown"
         IN
         /\ reqIn' = in
         /\ reqOut' = IF gates /\ Outmatched(in) /\ in.lucky
                      THEN [done |-> TRUE, raised |-> TRUE,
                            entry |-> "victim", time |-> "set"]
                      ELSE [done |-> TRUE, raised |-> FALSE,
                            entry |-> "kept", time |-> "kept"]
    /\ Frame("req")

\* DoCollisions returns; the next hit is handed to DoGrudge.
R_NextHit ==
    /\ reqOut.done
    /\ reqIn' = NoReqIn
    /\ reqOut' = NoReqOut
    /\ Frame("req")

ReqNext ==
    \/ R_DoGrudge
    \/ R_NextHit

ReqSpec == Init /\ [][ReqNext]_vars


\* ------------------------------------------------------------------------
\* SpawnPersons.

\* for(it : GameData::Persons()) sum += it.second.Frequency(system);
\* over the first n persons.
RECURSIVE TotalFrequency(_, _)
TotalFrequency(freq, n) ==
    IF n = 0 THEN 0 ELSE TotalFrequency(freq, n - 1) + freq[n]

\* A draw that does not depend on the persons.
RollRange_Fixed(sum) == 0..(Baseline - 1)

\* Random::Int(sum + 1000): Random::Int(n) is below n, as its use for an
\* index in SendHails (Random::Int(ships.size())) requires.
RollRange(sum) == 0..(sum + Baseline - 1)

\* The second loop from person p on with `left` in sum:
\* sum -= person.Frequency(system); if(sum < 0) { ... break; }
\* The person staged, 0 when the loop ends without one.
RECURSIVE Picked(_, _, _)
Picked(freq, left, p) ==
    IF p > MaxPersons THEN 0
    ELSE IF left - freq[p] < 0 THEN p
    ELSE Picked(freq, left - freq[p], p + 1)

\* SpawnPersons up to the draw: the first return, the first loop and
\* if(!sum) return;
P_Sum ==
    /\ personPc = "idle"
    /\ \E due \in BOOLEAN, hasLinks \in BOOLEAN,
          freq \in [1..MaxPersons -> 0..MaxFrequency] :
         IF ~due \/ ~hasLinks
         THEN /\ personPc' = "idle"
              /\ person' = [NoPerson EXCEPT !.why = "not due"]
         ELSE IF TotalFrequency(freq, MaxPersons) = 0
         THEN /\ personPc' = "idle"
              /\ person' = [NoPerson EXCEPT !.why = "nobody"]
         ELSE /\ personPc' = "summed"
              /\ person' = [NoPerson EXCEPT !.freq = freq, !.why = "summed"]
    /\ Frame("person")

\* SpawnPersons: sum = Random::Int(sum + 1000); and the second loop, which
\* stages the ship of the person picked (newShips.push_back(ship)).
P_Pick ==
    /\ personPc = "summed"
    /\ \E roll \in RollRange(TotalFrequency(person.freq, MaxPersons)) :
         person' = [person EXCEPT !.roll = roll,
                                  !.staged = Picked(person.freq, roll, 1),
                                  !.why = "picked"]
    /\ personPc' = "picked"
    /\ Frame("person")

\* SpawnPersons returns.
P_Return ==
    /\ personPc = "picked"
    /\ personPc' = "idle"
    /\ person' = NoPerson
    /\ Frame("person")

PersonNext ==
    \/ P_Sum
    \/ P_Pick
    \/ P_Return

PersonSpec == Init /\ [][PersonNext]_vars


\* ================================================================= claims

\* C1 (as stated): every Wait() returns after exactly one calculation has
\* completed since the previous Wait() returned, whatever the call sequence.
C1_WaitAfterExactlyOne == atWait.n >= 1 => atWait.calcs = 1

\* C1 (amended): when the calls follow the order Wait -> Step -> Go, a Wait()
\* returns after exactly as many completed calculations as Go() calls were
\* made since the previous Wait() returned: none for the first Wait() after
\* construction, exactly one for every later Wait().
C1_WaitOnePerGo ==
    (inOrder /\ atWait.n >= 1) =>
        /\ atWait.calcs = atWait.gos
        /\ atWait.calcs = (IF atWait.n = 1 THEN 0 ELSE 1)

C1_Witness == inOrder /\ atWait.n = 2 /\ atWait.calcs = 1 /\ last = "Wait"

\* C2: when the calls follow the order Wait -> Step -> Go, the worker is
\* never inside CalculateStep (nor between its return and the publication)
\* while the foreground is inside Step(), and no more calculations have been
\* started than Go() calls made.
C2_StepExcludesCalc ==
    inOrder =>
        /\ fpc = "in_step" => wpc \notin (CalcPhases \cup {"publish"})
        /\ calcNo <= step

C2_Witness == inOrder /\ fpc = "in_step" /\ calcDone >= 1

\* C3 (as stated): calcTickTock and drawTickTock always designate different
\* slots.
C3_AlwaysDifferent == calcTickTock # drawTickTock

\* C3 (amended): when the calls follow the order Wait -> Step -> Go, the two
\* indices differ for as long as the worker is inside CalculateStep and until
\* it publishes, so the slot being written is never the slot Draw() reads;
\* from a Wait() return to the next Go() the two indices are equal.
C3_DifferentWhileCalculating ==
    inOrder =>
        /\ wpc \in (CalcPhases \cup {"publish"}) =>
               calcTickTock # drawTickTock
        /\ draw[drawTickTock].state # "partial"
        /\ ~tornDraw
        /\ (last # "Go" /\ fpc # "go_notify") => calcTickTock = drawTickTock

C3_Witness ==
    /\ inOrder /\ wpc = "drawing"
    /\ draw[calcTickTock].state = "partial"
    /\ draw[drawTickTock].state = "full" /\ draw[drawTickTock].by >= 1

\* C4: the click point, right-click flag and shift flag HandleMouseClicks
\* acts on are the ones captured by the Step() of that frame; nothing the
\* foreground writes afterwards reaches the running calculation.
C4_ClickInputsCaptured == handled.set => handled = captured

\* C5: every Go(), the first one included, increments the frame counter by
\* one and flips the draw index to the slot most recently completely filled.
C5_GoFlipsToFilledSlot ==
    [][(fpc = "idle" /\ fpc' = "go_notify" /\ inOrder') =>
          /\ step' = step + 1
          /\ drawTickTock' = lastFilled
          /\ draw[drawTickTock'].state = "full"]_vars

\* C6: the worker has exited before the engine's members are destroyed, and
\* once the termination flag is set the destructor returns.
C6_TeardownTerminates ==
    /\ [](fpc = "destroyed" => wpc = "exited")
    /\ (terminate ~> fpc = "destroyed")

C6_Witness ==
    fpc = "destroyed" /\ wpc = "exited" /\ calcTickTock # drawTickTock

\* C7: the worker exits only from its condition wait with the flag set and
\* every started calculation published; a calculation, once begun, only moves
\* on through CalculateStep to the publication calcTickTock = drawTickTock
\* and the notification, and it gets there.
C7_NoCancellation ==
    /\ [][/\ (wpc' = "exited" /\ wpc # "exited") =>
                (wpc = "check" /\ terminate /\ calcDone = calcNo)
          /\ wpc \in CalcPhases => wpc' \in (CalcPhases \cup {"publish"})
          /\ wpc = "publish" =>
                \/ wpc' = "publish"
                \/ wpc' = "notify" /\ calcTickTock' = drawTickTock'
          /\ wpc = "notify" => wpc' \in {"notify", "check"}]_vars
    /\ ((wpc \in CalcPhases) ~> (wpc = "notify"))

C7_Witness == terminate /\ wpc = "publish"

\* C8: every event the worker appends is exposed by the next Step() and by
\* no other: none is lost, none is exposed twice, inside Step() the exposed
\* worker events are exactly those of the calculation just completed, and
\* the worker's queue is empty when a calculation starts.
C8_EventsDeliveredOnce ==
    /\ repeated = {}
    /\ lost = {}
    /\ wpc = "calc" => eventQueue = <<>>
    /\ fpc = "in_step" =>
           /\ eventQueue = <<>>
           /\ WorkerEvents(events) =
                  IF calcDone = 0 THEN {}
                  ELSE {<<calcDone, k>> : k \in 1..emitted}

C8_Witness ==
    /\ fpc = "in_step" /\ calcDone >= 2
    /\ Cardinality(WorkerEvents(events)) = MaxEvents
    /\ Cardinality(delivered) > MaxEvents

\* C9: an entity marked for removal during step N is, in every step after N,
\* never passed to its Move, never collided against and never added to the
\* draw list.
C9_NeverProcessedAgain ==
    /\ movedDead = {}
    /\ collidedDead = {}
    /\ drawnDead = {}

\* C10 as stated: no entity is subjected to collision (passed to
\* DoCollisions or DoCollection, or entered into a collision set) in the
\* step that created it.
C10_NotCollidedWhenCreated == collidedNew = {}

\* C10: an entity created during a step is not passed to Move in that step,
\* but it is subjected to collision in it: once the staging buffers are
\* spliced they are empty, every projectile created in the step has been
\* passed to DoCollisions when the collision loop is over, and every ship
\* created in the step that is in the player's system at full zoom is in one
\* of the collision sets of that step.
C10_CollidedWhenCreated ==
    /\ movedNew = {}
    /\ spc \in {"collide", "collect"} =>
         /\ newShips = <<>> /\ newProjectiles = <<>>
         /\ newFlotsam = <<>> /\ newVisuals = <<>>
         /\ (createdNow \cap Range(ships) \cap inSystem \cap fullZoom)
              \subseteq ((shipCollisions \cup cloakedCollisions)
                           \cap collidedNew)
    /\ spc = "collide" =>
         \A i \in 1..(idx - 1) :
           projectiles[i] \in createdNow => projectiles[i] \in collidedNew
    /\ spc = "collect" =>
         (createdNow \cap Range(projectiles)) \subseteq collidedNew

C10_Witness ==
    /\ spc = "collect"
    /\ createdNow \cap Range(projectiles) \cap collidedNew # {}
    /\ createdNow \cap Range(ships) \cap shipCollisions # {}

C12_RearmedWhenRequesterGone ==
    (/\ lastAttack.outcome \in {"suppressed", "gated", "raised"}
     /\ lastAttack.qualifies
     /\ lastAttack.requester \in GrudgeShips
     /\ (lastAttack.gone \/ lastAttack.away \/ lastAttack.disabled))
      => lastAttack.outcome = "raised"

\* C13: a request is raised for an attacking government only when the ship
\* registered for it, if any, is destroyed, out of the player's system or
\* disabled: while that ship is alive, present and not disabled, no attack
\* raises a new request for that government.
C13_SuppressedWhileRequesterActive ==
    /\ (lastAttack.outcome = "raised" /\ lastAttack.requester \in GrudgeShips)
         => (lastAttack.gone \/ lastAttack.away \/ lastAttack.disabled)
    /\ (/\ lastAttack.outcome # "none"
        /\ lastAttack.attacker # "player"
        /\ lastAttack.requester \in GrudgeShips
        /\ ~lastAttack.gone /\ ~lastAttack.away /\ ~lastAttack.disabled)
         => lastAttack.outcome \in {"cooldown", "suppressed"}

C13_Witness ==
    /\ lastAttack.outcome = "suppressed"
    /\ lastAttack.qualifies
    /\ lastAttack.requester \in GrudgeShips
    /\ lastAttack.target # lastAttack.requester
    /\ ~lastAttack.gone /\ ~lastAttack.away /\ ~lastAttack.disabled

\* C14: a missile that hit nothing and was shot down by the one ship with
\* an anti-missile system ready is destroyed in that step and is not moved,
\* collided or drawn in any later step.
C14_ShotDownNeverReturns ==
    /\ shotDown \subseteq removed \cup markedPrev
    /\ shotDown \cap movedDead = {}
    /\ shotDown \cap collidedDead = {}
    /\ shotDown \cap drawnDead = {}

\* C18 as stated: no fleet is placed, by SpawnFleets or by EnterSystem,
\* while its government's allied strength exceeds twice its enemy strength
\* and the enemy strength is nonzero.
C18_NoFleetWhenOutnumbering ==
    lastFleet.placed =>
      ~(enemyStrength # 0 /\ allyStrength > 2 * enemyStrength)

\* C18: SpawnFleets places a fleet exactly when it has a government and its
\* allied strength does not exceed twice a nonzero enemy strength; the fleets
\* EnterSystem places on entering a system are not throttled.
C18_SpawnFleetsThrottled ==
    /\ lastFleet.by = "SpawnFleets" =>
         (lastFleet.placed <=>
            /\ lastFleet.hasGov
            /\ ~(enemyStrength # 0 /\ allyStrength > 2 * enemyStrength))
    /\ lastFleet.by = "EnterSystem" => (lastFleet.placed <=> lastFleet.hasGov)

C18_Witness ==
    /\ lastFleet.by = "SpawnFleets" /\ lastFleet.hasGov /\ ~lastFleet.placed
    /\ enemyStrength = 2 /\ allyStrength = 5

\* C15 as stated: when a projectile whose weapon has a blast radius and is
\* not safe detonates, every ship of the active system inside the circle,
\* visible or cloaked, has damage applied and receives a damage event.
C15_BlastDamagesAllInSystem ==
    (blastOut.done /\ blastIn.blast /\ ~blastIn.safe) =>
      \A s \in BlastShips :
        blastIn.status[s] # "far" =>
          s \in blastOut.damaged /\ s \in blastOut.events

\* C15: when a projectile whose weapon has a blast radius and is not safe
\* detonates, damage is applied to exactly the ships of the two collision
\* sets (in the player's system with Zoom() == 1, visible or cloaked) that
\* are inside the circle, whatever their government, and of those exactly
\* the ships whose TakeDamage returns a nonzero event type get an event.
C15_BlastDamagesCollisionSets ==
    (blastOut.done /\ blastIn.blast /\ ~blastIn.safe) =>
      /\ blastOut.damaged =
           {s \in BlastShips : blastIn.status[s] \in {"visible", "cloaked"}}
      /\ blastOut.events = blastOut.damaged \cap blastIn.reports

C15_Witness ==
    /\ blastOut.done /\ blastIn.blast /\ ~blastIn.safe /\ ~blastIn.hasGov
    /\ blastIn.status[1] = "cloaked" /\ blastIn.status[2] = "landing"
    /\ blastOut.damaged = {1} /\ blastOut.events = {}

\* C16 as stated: when a projectile whose weapon is safe detonates with a
\* blast radius, a ship inside the radius that is neither the locked target
\* nor an enemy of the firing government has no damage applied and gets no
\* event, and the locked target and the enemies inside the radius are
\* damaged.
C16_SafeBlastSparesFriends ==
    (blastOut.done /\ blastIn.blast /\ blastIn.safe) =>
      \A s \in BlastShips :
        blastIn.status[s] \in {"visible", "cloaked"} =>
          IF s = blastIn.target \/ s \in blastIn.enemy
          THEN s \in blastOut.damaged
          ELSE s \notin blastOut.damaged /\ s \notin blastOut.events

\* C17 as stated: a projectile whose weapon has no blast radius damages at
\* most the single ship it hit directly and produces exactly one event for
\* that ship and none for any other; without a directly hit ship no ship
\* is damaged.
C17_ExactlyOneEventForHit ==
    (blastOut.done /\ ~blastIn.blast) =>
      IF blastIn.hit # 0
      THEN blastOut.damaged = {blastIn.hit}
           /\ blastOut.events = {blastIn.hit}
      ELSE blastOut.damaged = {} /\ blastOut.events = {}

\* C17: a projectile whose weapon has no blast radius damages exactly the
\* single ship it hit directly, and no ship when it has no directly hit
\* ship; it produces one event for the hit ship if that ship's TakeDamage
\* returns a nonzero event type, otherwise none, and never an event for
\* any other ship.
C17_AtMostOneEventForHit ==
    (blastOut.done /\ ~blastIn.blast) =>
      /\ blastOut.damaged = (IF blastIn.hit # 0 THEN {blastIn.hit} ELSE {})
      /\ blastOut.events = blastOut.damaged \cap blastIn.reports

C17_Witness ==
    /\ blastOut.done /\ ~blastIn.blast /\ blastIn.hit = 1
    /\ blastIn.status[2] = "visible" /\ blastIn.reports = {2}
    /\ blastOut.damaged = {1} /\ blastOut.events = {}

\* C19 as stated: absent optional references are always checked before
\* use: DoCollisions resolving a projectile without government whose weapon
\* is safe and has a blast radius, Step and RadarType handling a ship
\* without government, and Place and Step handling an absent planet never
\* use the absent reference.
C19_AbsentNeverUsed == nullUse = "none"

\* C20 as stated: during a step the live projectiles, visuals and flotsam
\* collections gain elements only at the single merge point; the mover,
\* spawn and collision passes never insert into them directly.
C20_LiveGainOnlyAtMerge ==
    [][spc # "merge" =>
         /\ Range(projectiles') \subseteq Range(projectiles)
         /\ Range(visuals') \subseteq Range(visuals)
         /\ Range(flotsam') \subseteq Range(flotsam)]_vars

\* C20: the live projectiles and flotsam collections gain elements only at
\* the merge point, where each live collection gains exactly what its
\* staging buffer holds and the buffers are emptied; the mover and spawn
\* passes never insert into a live collection; the live visuals collection
\* gains elements at the merge point and, after it, from the collision pass
\* (projectile.Explode and FireAntiMissile write into visuals).
C20_LiveGainAtMergeOrCollision ==
    [][/\ spc # "merge" =>
            /\ Range(projectiles') \subseteq Range(projectiles)
            /\ Range(flotsam') \subseteq Range(flotsam)
       /\ spc \notin {"merge", "collide"} =>
            Range(visuals') \subseteq Range(visuals)
       /\ spc = "merge" =>
            /\ Range(projectiles') =
                 Range(projectiles) \cup Range(newProjectiles)
            /\ Range(visuals') = Range(visuals) \cup Range(newVisuals)
            /\ Range(flotsam') = Range(flotsam) \cup Range(newFlotsam)
            /\ newProjectiles' = <<>> /\ newVisuals' = <<>>
            /\ newFlotsam' = <<>>]_vars

\* The only ship fired projectile 2 in this step; nothing else could have
\* staged visual 3 after it, so visual 3 came from the collision pass.
C20_Witness ==
    /\ spc = "collide"
    /\ ships = <<1>> /\ projectiles = <<2>> /\ flotsam = <<>>
    /\ visuals = <<3>>
    /\ {2, 3} \subseteq createdNow

\* C21 as stated: reinforcements, rare encounters and raids add ships only
\* to newShips: the live ship collection gains ships only at the merge
\* point, and the spawn passes neither remove nor mark a live ship.
C21_ShipsGainOnlyAtMerge ==
    [][/\ spc # "merge" => Range(ships') \subseteq Range(ships)
       /\ spc = "spawn" => ships' = ships /\ removed' = removed]_vars

\* C21: SpawnFleets and SpawnPersons add ships only to newShips and neither
\* remove nor mark a live ship; the live ship collection gains ships at the
\* merge point, which appends exactly the staged ships, and from
\* EnterSystem, which places its fleets and raid fleets straight into the
\* live collection, only in a step in which the flagship has entered a new
\* system, after the MoveShip loop and before Prune(ships).
C21_ShipsGainAtMergeOrEnterSystem ==
    [][/\ spc \notin {"merge", "ships"} =>
            Range(ships') \subseteq Range(ships)
       /\ (spc = "ships" /\ ~(Range(ships') \subseteq Range(ships))) =>
            /\ idx > Len(ships)
            /\ flagship # 0 /\ flagship \notin inSystem
            /\ enteredNow'
       /\ spc = "spawn" =>
            /\ ships' = ships /\ removed' = removed
            /\ Range(newShips) \subseteq Range(newShips')
       /\ spc = "merge" =>
            /\ ships' = ships \o newShips
            /\ newShips' = <<>>]_vars

C21_Witness ==
    /\ spc = "flotsam" /\ enteredNow
    /\ \E e \in Range(ships) : e \in createdNow /\ e # flagship

C23_OneDestroyThenNothing ==
    /\ \A ship \in 1..MaxMoveShips :
         /\ mvDestroyed[ship] <= 1
         /\ ship \in mvRemoved =>
              /\ mvDestroyed[ship] = 1
              /\ mvDone[ship] = {}
              /\ \A i \in 1..Len(mvReady) : mvReady[i] # ship
         /\ mvDestroyed[ship] = 1 =>
              \/ ship \in mvRemoved
              \/ \A i \in 1..Len(mvShips) : mvShips[i] # ship
    /\ mvIdx \in {0, -1} => mvRemoved = {}

\* Ship 3 died and was pruned in an earlier step; in this one ship 1 fired
\* and ship 2 has just died in its Move.
C23_Witness ==
    /\ mvIdx = 3
    /\ mvShips = <<1, 2>>
    /\ mvDestroyed[3] = 1
    /\ mvRemoved = {2} /\ mvDestroyed[2] = 1 /\ mvDone[2] = {}
    /\ "fire" \in mvDone[1] /\ mvReady = <<1>>

\* C24: anti-missile interception is attempted only for a projectile with
\* missile strength that hit nothing this step; only ships recorded as
\* anti-missile-ready by this same step's MoveShip that are the projectile's
\* target or an enemy of its owner attempt it, in the order of the ship
\* list; the attempts stop at the first success, so at most one ship
\* destroys the projectile and no ship after the first successful one fires.
C24_InterceptionStopsAtFirstSuccess ==
    LET tries == mvIntercept.attempts
        pos(ship) == CHOOSE i \in 1..Len(mvShips) : mvShips[i] = ship
    IN
    /\ mvIdx = 0 => mvReady = <<>>
    /\ \A i \in 1..Len(mvReady) : "ready" \in mvDone[mvReady[i]]
    /\ mvIntercept.done =>
         /\ tries # <<>> => mvIntercept.missile /\ ~mvIntercept.collided
         /\ \A i \in 1..Len(tries) :
              /\ "ready" \in mvDone[tries[i]]
              /\ tries[i] \in mvIntercept.eligible
              /\ \E k \in 1..Len(mvShips) : mvShips[k] = tries[i]
              /\ \A j \in 1..(i - 1) :
                   /\ pos(tries[j]) < pos(tries[i])
                   /\ tries[j] \notin mvIntercept.succeeds
         /\ mvIntercept.killed <=>
              (tries # <<>> /\ tries[Len(tries)] \in mvIntercept.succeeds)
         /\ (mvIntercept.missile /\ ~mvIntercept.collided) =>
              \A ship \in mvIntercept.eligible :
                ("ready" \in mvDone[ship]
                   /\ \A i \in 1..Len(tries) : tries[i] # ship)
                  => mvIntercept.killed

\* Ships 1, 2 and 3 are ready and eligible; ship 1 misses, ship 2 shoots
\* the missile down, ship 3 does not fire.
C24_Witness ==
    /\ mvIntercept.done /\ mvIntercept.missile /\ ~mvIntercept.collided
    /\ mvReady = <<1, 2, 3>>
    /\ mvIntercept.eligible = {1, 2, 3}
    /\ mvIntercept.succeeds = {2, 3}
    /\ mvIntercept.attempts = <<1, 2>>
    /\ mvIntercept.killed

\* C25 as stated: a fully cloaked ship is never the ship a projectile hits
\* directly, a trigger-radius detonation is always caused by a ship that is
\* not cloaked, and a cloaked ship of the player's system inside the blast
\* radius of a detonation is damaged by it.
C25_CloakedAlwaysBlasted ==
    hitOut.done =>
        /\ \A s \in BlastShips : hitIn.ships[s].cloaked => hitOut.hit # s
        /\ hitOut.by = "trigger" =>
              \E s \in BlastShips :
                  /\ hitIn.ships[s].here /\ ~hitIn.ships[s].cloaked
                  /\ hitIn.ships[s].place # "far"
                  /\ s = hitIn.target \/ hitIn.ships[s].enemy
        /\ \A s \in BlastShips :
              /\ hitIn.ships[s].cloaked /\ hitIn.ships[s].here
              /\ hitIn.ships[s].place # "far"
              /\ hitOut.by # "none" /\ hitIn.blast
              => s \in hitOut.damaged

\* C25 amended: a fully cloaked ship is never the ship a projectile hits
\* directly and never causes a trigger-radius detonation; a cloaked ship in
\* the player's system at Zoom() == 1. inside the blast radius of a
\* detonation is damaged when the weapon is not safe, or when the
\* projectile has a government and the ship is its target or an enemy of
\* that government; a safe weapon of a projectile with a government spares
\* every other cloaked ship, and a cloaked ship outside the collision sets
\* is never damaged.
C25_CloakedBlastedUnlessSafe ==
    hitOut.done =>
        /\ \A s \in BlastShips : hitIn.ships[s].cloaked => hitOut.hit # s
        /\ hitOut.by = "trigger" =>
              \E s \in BlastShips :
                  /\ hitIn.ships[s].here /\ ~hitIn.ships[s].cloaked
                  /\ hitIn.ships[s].place # "far"
                  /\ s = hitIn.target \/ hitIn.ships[s].enemy
        /\ \A s \in BlastShips :
              /\ hitIn.ships[s].cloaked /\ hitIn.ships[s].here
              /\ hitIn.ships[s].place # "far"
              /\ hitOut.by # "none" /\ hitIn.blast
              => /\ ~hitIn.safe => s \in hitOut.damaged
                 /\ hitIn.safe /\ hitIn.hasGov =>
                       (s \in hitOut.damaged
                           <=> s = hitIn.target \/ hitIn.ships[s].enemy)
        /\ \A s \in BlastShips :
              hitIn.ships[s].cloaked /\ ~hitIn.ships[s].here
              => s \notin hitOut.damaged

\* A cloaked ship on the path of a projectile that hits another ship behind
\* it and damages the cloaked ship with its blast.
C25_Witness ==
    /\ hitOut.done /\ hitOut.by = "line" /\ hitIn.blast /\ hitIn.trigger
    /\ \E s \in BlastShips :
         /\ hitIn.ships[s].cloaked /\ hitIn.ships[s].here
         /\ hitIn.ships[s].place = "onPath" /\ hitIn.ships[s].enemy
         /\ hitOut.hit \notin {0, s}
         /\ s \in hitOut.damaged

\* C26: a projectile with a government whose weapon is phasing and which
\* has a target hits only that target or nothing, and is never stopped by
\* an asteroid or a trigger radius, whatever lies on its path.
C26_PhasingHitsOnlyTarget ==
    hitOut.done /\ hitIn.hasGov /\ hitIn.phasing /\ hitIn.target # 0 =>
        /\ hitOut.hit \in {0, hitIn.target}
        /\ hitOut.hit \in 0..MaxBlastShips
        /\ hitOut.by \in {"target", "none"}
        /\ hitOut.by = "target" <=> hitOut.hit # 0

\* A phasing projectile hits its target although an asteroid and another,
\* hostile ship lie on its path.
C26_Witness ==
    /\ hitOut.done /\ hitIn.hasGov /\ hitIn.phasing /\ hitIn.asteroid
    /\ hitIn.target \in BlastShips /\ hitOut.hit = hitIn.target
    /\ \E s \in BlastShips :
         /\ s # hitIn.target
         /\ hitIn.ships[s].here /\ ~hitIn.ships[s].cloaked
         /\ hitIn.ships[s].place = "onPath" /\ hitIn.ships[s].enemy

\* C27 as stated: a request is raised only when at least GrudgeCooldown
\* calculations have begun since the last one, it sets the counter to
\* GrudgeCooldown, and every calculation that begins, whether or not it goes
\* past the early return, takes one off the counter until it is zero.
C27_CounterFallsEveryStep ==
    [][/\ (lastAttack'.outcome = "raised" /\ lastAttack' # lastAttack)
            => /\ quietSteps = GrudgeCooldown
               /\ grudgeTime' = GrudgeCooldown
       /\ (\/ quietSteps' = quietSteps + 1
           \/ lastAttack' = NoSystemStep /\ lastAttack # NoSystemStep)
            => grudgeTime' = IF grudgeTime > 0 THEN grudgeTime - 1 ELSE 0
       /\ grudgeTime' \in 0..GrudgeCooldown]_vars

\* C27 amended: a request is raised, for whatever government, only when the
\* counter is zero and at least GrudgeCooldown calculations have gone past
\* the early return since the last request, so none is raised in the rest
\* of the step of a request nor in the GrudgeCooldown - 1 calculations that
\* follow; a request sets the counter to GrudgeCooldown; a calculation
\* that goes past the early return takes exactly one off the counter until
\* it is zero, a calculation that returns because the player has no system
\* leaves it alone and raises nothing, and nothing else changes it.
C27_CounterFallsEverySystemStep ==
    [][/\ (lastAttack'.outcome = "raised" /\ lastAttack' # lastAttack)
            => /\ quietSteps = GrudgeCooldown /\ grudgeTime = 0
               /\ grudgeTime' = GrudgeCooldown
       /\ quietSteps' = quietSteps + 1
            => grudgeTime' = IF grudgeTime > 0 THEN grudgeTime - 1 ELSE 0
       /\ lastAttack' = NoSystemStep => grudgeTime' = grudgeTime
       /\ grudgeTime' # grudgeTime
            => \/ quietSteps' = quietSteps + 1
               \/ lastAttack'.outcome = "raised"
       /\ grudgeTime' \in 0..GrudgeCooldown
       /\ grudgeTime' = GrudgeCooldown - quietSteps']_vars

\* In the last calculation of the cooldown an attack by a government nobody
\* has asked for help against passes every gate and still raises nothing.
C27_Witness ==
    /\ lastAttack.outcome = "cooldown" /\ lastAttack.qualifies
    /\ lastAttack.requester = NoEntry
    /\ grudgeTime = 1 /\ quietSteps = GrudgeCooldown - 1

\* C28: a hit by a projectile of the player's government on a ship of
\* government F raises no request and leaves the cooldown alone; a
\* thank-you is sent exactly when the ship registered against F is alive,
\* in the player's system and not disabled; the thank-you empties the entry
\* of F, and a second hit by the player on a ship of F right after sends
\* no second thank-you.
C28_PlayerHitThanksOnce ==
    [][/\ lastAttack'.attacker = "player" =>
            /\ lastAttack'.outcome \in {"player", "thanked"}
            /\ lastAttack'.outcome = "thanked" <=>
                  /\ lastAttack'.requester \in GrudgeShips
                  /\ ~lastAttack'.gone
                  /\ ~lastAttack'.away
                  /\ ~lastAttack'.disabled
            /\ lastAttack'.outcome = "thanked" =>
                  grudge'[shipGov[lastAttack'.target]] = EmptyEntry
       /\ (lastAttack'.attacker = "player" /\ lastAttack' # lastAttack) =>
            /\ grudgeTime' = grudgeTime
            /\ \A g \in Governments : grudge'[g] \in {grudge[g], EmptyEntry}
       /\ (/\ lastAttack.outcome = "thanked"
           /\ lastAttack'.attacker = "player"
           /\ lastAttack' # lastAttack
           /\ shipGov[lastAttack'.target] = shipGov[lastAttack.target]) =>
            lastAttack'.outcome = "player"
       /\ lastAttack'.outcome = "thanked" => lastAttack'.attacker = "player"
      ]_vars

\* The player hit a ship of the government a ship that is alive, here and
\* not disabled had asked for help against: it said thank you and its entry
\* is empty.
C28_Witness ==
    /\ lastAttack.outcome = "thanked"
    /\ lastAttack.requester \in (shipAlive \cap shipPresent) \ shipDisabled
    /\ lastAttack.requester # lastAttack.target
    /\ grudge[shipGov[lastAttack.target]] = EmptyEntry
    /\ grudgeTime > 0

\* C29: a request is raised only when the attacking government is an enemy
\* of the player, the victim's government is neither the player's nor an
\* enemy of the player, the victim is not mute, its language is none or
\* known to the player, and the strengths of the ships of the attacking
\* government that target the victim add up to strictly more than the
\* victim's own; a raised request puts the victim in the entry of the
\* attacking government, and nothing else changes the entry.
C29_RaisedOnlyPastEveryGate ==
    LET sum[n \in 0..MaxAttackers] ==
            IF n = 0 THEN 0
            ELSE sum[n - 1]
                 + (IF reqIn.ships[n].sameGov /\ reqIn.ships[n].targets
                    THEN reqIn.ships[n].strength ELSE 0)
    IN  reqOut.done =>
          /\ reqOut.raised =>
                /\ reqIn.attackerEnemy
                /\ ~reqIn.targetPlayer /\ ~reqIn.targetEnemy
                /\ ~reqIn.mute
                /\ reqIn.language \in {"none", "known"}
                /\ sum[MaxAttackers] > reqIn.targetStrength
                /\ reqOut.entry = "victim"
          /\ ~reqOut.raised => reqOut.entry = "kept"

\* A victim asks for help against attackers none of which is stronger than
\* it, but which are stronger together.
C29_Witness ==
    /\ reqOut.done /\ reqOut.raised /\ reqOut.entry = "victim"
    /\ reqIn.language = "known"
    /\ reqIn.targetStrength >= 1
    /\ \A a \in 1..MaxAttackers :
         /\ reqIn.ships[a].sameGov /\ reqIn.ships[a].targets
         /\ reqIn.ships[a].strength <= reqIn.targetStrength

\* C30 as stated: once the eligible persons are summed, the draws that
\* stage a ship are the same fraction of all draws as for any other
\* frequencies with a positive sum.
C30_RateSameForAllPersons ==
    LET sumOf(freq) == TotalFrequency(freq, MaxPersons)
        stagingDraws(freq) ==
            Cardinality({r \in RollRange(sumOf(freq)) :
                            Picked(freq, r, 1) # 0})
        allDraws(freq) == Cardinality(RollRange(sumOf(freq)))
    IN  personPc = "summed" =>
          \A other \in [1..MaxPersons -> 0..MaxFrequency] :
              sumOf(other) > 0 =>
                  stagingDraws(person.freq) * allDraws(other)
                      = stagingDraws(other) * allDraws(person.freq)

\* C30 amended: with a positive sum S of the eligible persons' frequencies,
\* exactly S of the S + Baseline draws stage a ship, so the fraction is the
\* same for two sets of persons only when their sums are equal and is
\* larger for the larger sum; a ship is staged exactly when the draw is
\* below S, and the person staged has a positive frequency and is the one
\* whose share of 0..S-1, in the order of the list, holds the draw.
C30_RateGrowsWithFrequency ==
    LET sumOf(freq) == TotalFrequency(freq, MaxPersons)
        stagingDraws(freq) ==
            Cardinality({r \in RollRange(sumOf(freq)) :
                            Picked(freq, r, 1) # 0})
        allDraws(freq) == Cardinality(RollRange(sumOf(freq)))
        sumBefore[p \in 0..MaxPersons] ==
            IF p = 0 THEN 0 ELSE sumBefore[p - 1] + person.freq[p]
    IN  /\ personPc = "summed" =>
            /\ sumOf(person.freq) > 0
            /\ stagingDraws(person.freq) = sumOf(person.freq)
            /\ allDraws(person.freq) = sumOf(person.freq) + Baseline
            /\ \A other \in [1..MaxPersons -> 0..MaxFrequency] :
                  /\ sumOf(other) = sumOf(person.freq) =>
                        stagingDraws(other) * allDraws(person.freq)
                            = stagingDraws(person.freq) * allDraws(other)
                  /\ sumOf(other) > sumOf(person.freq) =>
                        stagingDraws(other) * allDraws(person.freq)
                            > stagingDraws(person.freq) * allDraws(other)
        /\ personPc = "picked" =>
            /\ person.staged # 0 <=> person.roll < sumOf(person.freq)
            /\ person.staged # 0 =>
                  /\ person.freq[person.staged] > 0
                  /\ sumBefore[person.staged - 1] <= person.roll
                  /\ person.roll < sumBefore[person.staged]
        /\ personPc = "idle" => person.staged = 0

\* The second person is staged: the draw falls past the share of the first.
C30_Witness ==
    /\ personPc = "picked" /\ person.staged = 2
    /\ person.freq[1] > 0 /\ person.roll >= person.freq[1]
    /\ \A p \in 1..MaxPersons : person.freq[p] > 0

\* C31: a projectile with a government that does not take the branch of a
\* phasing weapon with a target, and whose weapon has a trigger radius,
\* detonates at fraction 0 (closestHit = 0., below 1.) whenever a ship of
\* shipCollisions inside the trigger circle is its target or an enemy of
\* its government; when every ship in the circle is neither, no trigger
\* detonation happens: closestHit is what the segment query and the
\* asteroid field leave.
C31_TriggerDetonatesAtZero ==
    (/\ impactOut.done /\ impactIn.hasGov /\ impactIn.radius
     /\ ~(impactIn.phasing /\ impactIn.target)) =>
        /\ impactIn.inCircle \cap {"target", "enemy"} # {} =>
              /\ impactOut.triggered
              /\ impactOut.closestHit = 0
              /\ impactOut.closestHit < MaxFraction
        /\ impactIn.inCircle \cap {"target", "enemy"} = {} =>
              /\ ~impactOut.triggered
              /\ impactOut.closestHit \in {impactIn.line, impactIn.asteroid}
              /\ (impactIn.line = MaxFraction
                  /\ impactIn.asteroid = MaxFraction) =>
                    impactOut.closestHit = MaxFraction

\* An enemy in the trigger circle, among other ships, sets off a projectile
\* that has a ship and an asteroid further along its path.
C31_Witness ==
    /\ impactOut.done /\ impactIn.hasGov /\ ~impactIn.phasing
    /\ impactIn.radius /\ impactIn.inCircle = {"enemy", "other"}
    /\ impactIn.line = 1 /\ impactIn.asteroid = 1
    /\ impactOut.closestHit = 0 /\ impactOut.triggered

\* C32 as stated: for every projectile whose weapon is not phasing,
\* closestHit ends as the minimum of the segment query's ship hit and the
\* asteroid hit, no ship is hit when the asteroid is strictly closer, and
\* the ship stays the hit body when it is at least as close.
C32_ImpactIsMinimum ==
    (impactOut.done /\ ~impactIn.phasing) =>
        /\ impactOut.closestHit =
              (IF impactIn.asteroid < impactIn.line THEN impactIn.asteroid
               ELSE impactIn.line)
        /\ impactIn.asteroid < impactIn.line => impactOut.hit = "none"
        /\ (impactIn.line <= impactIn.asteroid
            /\ impactIn.line < MaxFraction) => impactOut.hit = "ship"

\* C32, amended: for a projectile with a government whose weapon is not
\* phasing and which no trigger radius set off, closestHit ends as the
\* minimum of the segment query's ship hit and the asteroid hit; no ship is
\* the hit body when the asteroid is strictly closer, and the ship stays the
\* hit body when it is at least as close.  A projectile that a trigger
\* radius set off, or that has no government, detonates at fraction 0
\* with no hit body, whatever lies on its path.
C32_ImpactIsMinimumUnlessSetOff ==
    (impactOut.done /\ ~impactIn.phasing) =>
        IF ~impactIn.hasGov
              \/ (impactIn.radius
                  /\ impactIn.inCircle \cap {"target", "enemy"} # {})
        THEN impactOut.closestHit = 0 /\ impactOut.hit = "none"
        ELSE /\ impactOut.closestHit =
                  (IF impactIn.asteroid < impactIn.line
                   THEN impactIn.asteroid ELSE impactIn.line)
             /\ impactIn.asteroid < impactIn.line => impactOut.hit = "none"
             /\ (impactIn.line <= impactIn.asteroid
                 /\ impactIn.line < MaxFraction) => impactOut.hit = "ship"

\* An asteroid nearer than the ship on the path shields it: the projectile
\* detonates at the asteroid and no ship is the hit body.
C32_Witness ==
    /\ impactOut.done /\ impactIn.hasGov /\ ~impactIn.phasing
    /\ ~impactOut.triggered
    /\ impactIn.line = 1 /\ impactIn.asteroid = 0
    /\ impactOut.closestHit = 0 /\ impactOut.hit = "none"

\* C33: SendHails adds a hail message only for a ship that has a government
\* other than the player's, is in the player's system, is not disabled,
\* has crew, is not at Cloaking() >= 1. and has a hail message that is not
\* empty; it adds at most one message in a calculation, none when the
\* player is dead or the ship list is empty, and leaves the ship as it was.
C33_HailOnlyFromAbleShip ==
    hailOut.done =>
        /\ Len(hailOut.messages) <= 1
        /\ hailOut.messages # <<>> =>
              /\ hailIn.due /\ ~hailIn.dead /\ hailIn.ships > 0
              /\ hailOut.messages[1] = hailIn.i + 1
              /\ hailOut.messages[1] \in 1..hailIn.ships
              /\ hailIn.source.gov = "other"
              /\ hailIn.source.here
              /\ ~hailIn.source.disabled
              /\ hailIn.source.crew
              /\ ~hailIn.source.cloaked
              /\ hailIn.source.hail
        /\ (hailIn.dead \/ hailIn.ships = 0) => hailOut.messages = <<>>
        /\ hailOut.source = hailIn.source

\* The second ship of the list, able to hail, sends one.
C33_Witness ==
    /\ hailOut.done /\ hailIn.ships = 2 /\ hailIn.i = 1
    /\ hailOut.messages = <<2>>
    /\ hailIn.source.gov = "other" /\ hailIn.source.crew

C35_PlayerHitKeepsRequestsOpen ==
    (/\ lastAttack.attacker = "player"
     /\ lastAttack.outcome = "player"
     /\ lastAttack.requester = NoEntry)
      => ~Suppressed(shipGov[lastAttack.target])

\* C36: once terminate is set, a worker that is at its condition wait or
\* about to enter it starts no calculation, whether or not a Go() is
\* pending (calcTickTock # drawTickTock): it leaves the loop; and after it
\* has left, no calculation is started and the two indices stay as they
\* are, different if a Go() was pending.
C36_TerminateBeatsPendingGo ==
    [][/\ (terminate /\ wpc \in {"check", "blocked"}) =>
             /\ wpc' \in {"check", "blocked", "exited"}
             /\ calcNo' = calcNo
       /\ wpc = "exited" =>
             /\ wpc' = "exited" /\ calcNo' = calcNo
             /\ calcTickTock' = calcTickTock
             /\ drawTickTock' = drawTickTock]_vars

\* The worker has left its loop although the calculation the last Go()
\* asked for was never run.
C36_Witness ==
    /\ wpc = "exited" /\ terminate /\ last = "Go"
    /\ calcTickTock # drawTickTock

\* C37: Step() sets doClick only when a click was registered since the
\* previous Step(), however many were, and clears doClickNextStep, so a
\* frame without a new click runs with doClick false and a click is handed
\* to one calculation only; registering a click changes neither doClick nor
\* what a running calculation has acted on; and the click a calculation
\* acts on is the one the Step() before its Go() captured, never one
\* registered since.
C37_ClickActedOnOnceNextFrame ==
    [][/\ (fpc = "in_step" /\ fpc' = "idle") =>
             /\ doClick' => doClickNextStep
             /\ ~doClickNextStep'
       /\ (doClickNextStep' /\ fpc = "idle") =>
             /\ doClick' = doClick
             /\ handled' = handled
       /\ (wpc = "clicks" /\ wpc' = "drawing" /\ handled' # handled) =>
             /\ doClick
             /\ handled' = captured]_vars

\* C38: a completed calculation leaves newShips, newProjectiles, newFlotsam,
\* newVisuals and hasAntiMissile empty.  While the projectiles are resolved
\* every ship in hasAntiMissile is listed and not marked for removal, and a
\* ship is entered into hasAntiMissile only by its own move, when that move
\* left it unmarked and in the player's system.
C38_StagingEmptyBetweenSteps ==
    /\ [](/\ spc = "idle" =>
               /\ newShips = <<>> /\ newProjectiles = <<>>
               /\ newFlotsam = <<>> /\ newVisuals = <<>>
               /\ hasAntiMissile = <<>>
          /\ spc = "collide" =>
               /\ newShips = <<>> /\ newProjectiles = <<>>
               /\ newFlotsam = <<>> /\ newVisuals = <<>>
               /\ Range(hasAntiMissile) \subseteq Range(ships) \ removed)
    /\ [][hasAntiMissile' # hasAntiMissile /\ hasAntiMissile' # <<>> =>
            /\ spc = "ships" /\ idx <= Len(ships)
            /\ hasAntiMissile' = Append(hasAntiMissile, ships[idx])
            /\ ships[idx] \in inSystem' \ removed']_vars

C38_Witness ==
    /\ spc = "collide" /\ idx > 1
    /\ hasAntiMissile # <<>>
    /\ shotDown # {}

\* C39: in the step in which the flagship is found in another system than the
\* player's, EnterSystem leaves the grudge table empty and leaves in the
\* projectile, visual and flotsam collections, live and staged, only
\* entities created by that call or later; for the rest of the step these
\* collections gain only newly created entities, so at the end of the step
\* every live projectile, visual and flotsam was created after the entry,
\* and every ship registered in the grudge table was registered by a hit
\* resolved after the entry, among the ships of the new system.
C39_EntryDiscardsOldEntities ==
    /\ [](enteredNow =>
            /\ Range(projectiles) \cup Range(visuals) \cup Range(flotsam)
                 \subseteq createdNow
            /\ \/ spc \in {"collide", "collect", "idle"}
               \/ grudge = [g \in Governments |-> NoEntry]
            /\ \A g \in Governments :
                 \/ grudge[g] = NoEntry
                 \/ grudge[g] \in shipCollisions \cap inSystem)
    /\ [][LET Held == Range(projectiles) \cup Range(visuals)
                       \cup Range(flotsam) \cup Range(newProjectiles)
                       \cup Range(newVisuals) \cup Range(newFlotsam)
          IN
          /\ (/\ spc = "ships" /\ idx > Len(ships)
              /\ flagship # 0 /\ flagship \notin inSystem) =>
                 /\ enteredNow'
                 /\ grudge' = [g \in Governments |-> NoEntry]
                 /\ \A g \in Governments : ~Suppressed(g)'
                 /\ \A e \in Held' : e >= nextId
          /\ (enteredNow /\ enteredNow') =>
                 \A e \in Held' : e \in Held \/ e >= nextId]_vars

C39_Witness ==
    /\ enteredNow /\ spc = "idle"
    /\ markedPrev # {}
    /\ Range(projectiles) \cup Range(visuals) \cup Range(flotsam) # {}

\* C40: DoCollisions hands at most one ship to DoGrudge, and only the ship
\* the projectile hit directly: a ship of the visible collision set on the
\* projectile's path, hit by a projectile that has a government.  A
\* detonation set off by an asteroid, by the trigger radius or by a ship
\* explosion hands no ship to DoGrudge, and neither does a ship that only
\* the blast damaged.
C40_GrudgeOnlyForDirectHit ==
    hitOut.done =>
      /\ Cardinality(hitOut.grudge) <= 1
      /\ \A s \in hitOut.grudge :
           /\ s = hitOut.hit
           /\ hitIn.hasGov
           /\ s \in ShipCollisions(hitIn)
           /\ hitIn.ships[s].place = "onPath"
           /\ hitIn.phasing \/ ~hitIn.asteroid
           /\ (hitIn.phasing /\ hitIn.target # 0) => s = hitIn.target
      /\ hitOut.by \in {"asteroid", "trigger", "explosion", "none"} =>
           hitOut.grudge = {}
      /\ (hitOut.damaged \ {hitOut.hit}) \cap hitOut.grudge = {}

C40_Witness ==
    /\ hitOut.done
    /\ hitOut.by = "line"
    /\ hitOut.grudge = {hitOut.hit}
    /\ hitOut.damaged \ hitOut.grudge # {}

====
